---- MODULE Spec2Model ----
(***************************************************************************)
(* Model of pdfminer/pdfinterp.py: the content-stream interpreter          *)
(* PDFPageInterpreter (operand stack, operator dispatch, graphics and text *)
(* state, save/restore stack, path construction, device callbacks).        *)
(*                                                                         *)
(* Numbers are integers.  An operand of the content stream is a record     *)
(* [t, v]: t is its kind ("num", "str", "lit"), v its integer payload.     *)
(* A handler do_X is an operator from the interpreter (a record of its     *)
(* fields) to the interpreter after the call; `err` is the exception that  *)
(* escaped, "" when none did; `calls` are the device callbacks made.       *)
(***************************************************************************)
EXTENDS Integers, Sequences, FiniteSets, TLC

\* ------------------------------------------------------------------ bounds
\* Operators (keyword tokens) the tokenizer delivers before end of content.
MaxInstr == 5
\* Operands that may wait on argstack (pushes beyond are not generated).
MaxArgs == 6
\* Operands that may wait on argstack in the streams whose operands are of
\* four kinds (text sequences).
MaxWaiting == 2
\* Calls of get_font the page workers make.
MaxCalls == 4
\* Bytes after the `ID ` of an inline image, when every sequence is read.
MaxData == 5

\* ------------------------------------------------------------------- state
VARIABLES
    strict,        \* settings.STRICT, fixed for the run
    status,        \* execute: "running", "done" (PSEOF), "raised"
    instr,         \* tokenizer: instruction index of the next operator
    gstack, ctm, textstate, graphicstate, curpath, argstack, scs, ncs,
    calls,         \* device callbacks made by the latest step, in order
    devctm,        \* device: the matrix of the latest set_ctm
    last,          \* the token the latest step read and what dispatch did
    saved,         \* history: (ctm, textstate, graphicstate) at each open q
    parser,        \* the PDFContentParser of execute, when it is modelled
    rsrcmgr,       \* the PDFResourceManager and the get_font calls under way
    legal,         \* history: the stream read so far is well formed
    text           \* history: the Td read since the latest BT

\* ------------------------------------------------------------------ values
Num(n) == [t |-> "num", v |-> n]
Str(n) == [t |-> "str", v |-> n]
Lit(n) == [t |-> "lit", v |-> n]
NoneObj == [t |-> "none", v |-> 0]
Font(n) == [t |-> "font", v |-> n]
IsNum(x) == x.t = "num"

NoColor == [t |-> "none", c |-> <<>>]
Scalar(x) == [t |-> "scalar", c |-> <<x>>]
Tuple(xs) == [t |-> "tuple", c |-> xs]
List(xs) == [t |-> "list", c |-> xs]

\* An array operand is the list the parser built: [(A), -120, (B)].
TextSeq == List(<<Str(1), Num(-120), Str(2)>>)

MATRIX_IDENTITY == <<1, 0, 0, 1, 0, 0>>

mult_matrix(m1, m0) ==
    << m0[1] * m1[1] + m0[3] * m1[2],
       m0[2] * m1[1] + m0[4] * m1[2],
       m0[1] * m1[3] + m0[3] * m1[4],
       m0[2] * m1[3] + m0[4] * m1[4],
       m0[1] * m1[5] + m0[3] * m1[6] + m0[5],
       m0[2] * m1[5] + m0[4] * m1[6] + m0[6] >>

\* safe_float: the number, or None when the operand is not one.
safe_float(x) == IF IsNum(x) THEN x ELSE NoneObj

\* Color spaces: name -> number of components.
ColorSpace(name, n) == [name |-> name, ncomponents |-> n]
NoCS == ColorSpace("", 0)
PREDEFINED_COLORSPACE ==
    [n \in {"DeviceGray", "CalRGB", "CalGray", "Lab", "DeviceRGB",
            "DeviceCMYK", "Separation", "Indexed", "Pattern"} |->
       ColorSpace(n, CASE n \in {"CalRGB", "Lab", "DeviceRGB"} -> 3
                       [] n = "DeviceCMYK" -> 4
                       [] OTHER -> 1)]
\* The first value of the table, in insertion order.
FirstCS == PREDEFINED_COLORSPACE["DeviceGray"]

\* Names of the page's resources: font /F1 is bound, color-space literals
\* are numbered.
FontMap == [n \in {1} |-> Font(1)]
DefaultFont == Font(0)
\* The tokens of a content stream: operands and keywords.
Obj(x) == [k |-> "obj", obj |-> x, name |-> ""]
Kw(name) == [k |-> "keyword", obj |-> NoneObj, name |-> name]
\* XObjects: /X1 a form with BBox and Matrix that strokes a path; /X2 a
\* form with BBox and no Matrix that sets the line width and invokes /X1;
\* /X3 an image; /X4 a form without BBox; /X5 a form with BBox that restores
\* with no save of its own, moves the ctm, saves, sets the line width and
\* the stroking color space, begins a path and leaves an operand.
XObjMap ==
    [n \in {1, 2, 3, 4, 5} |->
       CASE n = 1 -> [Subtype |-> "Form", BBox |-> <<0, 0, 100, 100>>,
                      Matrix |-> <<2, 0, 0, 2, 10, 20>>,
                      Content |-> <<Obj(Num(1)), Obj(Num(1)), Kw("m"),
                                    Kw("S")>>]
         [] n = 2 -> [Subtype |-> "Form", BBox |-> <<0, 0, 10, 10>>,
                      Content |-> <<Obj(Num(1)), Kw("w"), Obj(Lit(1)),
                                    Kw("Do")>>]
         [] n = 3 -> [Subtype |-> "Image", Width |-> 1, Height |-> 1]
         [] n = 4 -> [Subtype |-> "Form", Content |-> <<Kw("S")>>]
         [] n = 5 -> [Subtype |-> "Form", BBox |-> <<0, 0, 10, 10>>,
                      Content |-> <<Kw("Q"), Obj(Num(1)), Obj(Num(1)),
                                    Obj(Num(1)), Obj(Num(1)), Obj(Num(1)),
                                    Obj(Num(1)), Kw("cm"), Kw("q"),
                                    Obj(Num(1)), Kw("w"), Obj(Lit(4)),
                                    Kw("CS"), Obj(Num(1)), Obj(Num(1)),
                                    Kw("m"), Obj(Num(1))>>]]
CSName(n) == CASE n = 1 -> "DeviceGray" [] n = 3 -> "DeviceRGB"
               [] n = 4 -> "DeviceCMYK" [] OTHER -> "Undefined"

\* ------------------------------------------------------- PDFTextState etc.
PDFTextState ==
    [font |-> NoneObj, fontsize |-> Num(0), charspace |-> Num(0),
     wordspace |-> Num(0), scaling |-> Num(100), leading |-> Num(0),
     render |-> Num(0), rise |-> Num(0),
     matrix |-> MATRIX_IDENTITY, linematrix |-> <<0, 0>>]

TextState_copy(ts) ==
    [font |-> ts.font, fontsize |-> ts.fontsize, charspace |-> ts.charspace,
     wordspace |-> ts.wordspace, scaling |-> ts.scaling,
     leading |-> ts.leading, render |-> ts.render, rise |-> ts.rise,
     matrix |-> ts.matrix, linematrix |-> ts.linematrix]

TextState_reset(ts) ==
    [ts EXCEPT !.matrix = MATRIX_IDENTITY, !.linematrix = <<0, 0>>]

PDFGraphicState ==
    [linewidth |-> Num(0), linecap |-> NoneObj, linejoin |-> NoneObj,
     miterlimit |-> NoneObj, dash |-> <<>>, intent |-> NoneObj,
     flatness |-> NoneObj, scolor |-> NoColor, ncolor |-> NoColor]

GraphicState_copy(gs) ==
    [linewidth |-> gs.linewidth, linecap |-> gs.linecap,
     linejoin |-> gs.linejoin, miterlimit |-> gs.miterlimit,
     dash |-> gs.dash, intent |-> gs.intent, flatness |-> gs.flatness,
     scolor |-> gs.scolor, ncolor |-> gs.ncolor]

\* ------------------------------------------------------------- interpreter
\* init_state(ctm): the interpreter render_contents starts execute with.
init_state(ctm0) ==
    [gstack |-> <<>>, ctm |-> ctm0,
     calls |-> << [f |-> "set_ctm", a |-> <<ctm0>>] >>,
     textstate |-> PDFTextState, graphicstate |-> PDFGraphicState,
     curpath |-> <<>>, argstack |-> <<>>,
     scs |-> FirstCS, ncs |-> FirstCS, err |-> ""]

Device(s, f, a) == [s EXCEPT !.calls = Append(@, [f |-> f, a |-> a])]
\* The matrix the device holds after the calls, m the one it held before.
set_ctm(made, m) ==
    LET told == {i \in DOMAIN made : made[i].f = "set_ctm"} IN
    IF told = {} THEN m
    ELSE made[CHOOSE i \in told : \A j \in told : j <= i].a[1]
Raise(s, e) == [s EXCEPT !.err = e]

push(s, obj) == [s EXCEPT !.argstack = Append(@, obj)]

\* pop(n) returns argstack[-n:] and leaves argstack[:-n].
pop_x(stack, n) ==
    IF n = 0 THEN <<>>
    ELSE IF Len(stack) <= n THEN stack
    ELSE SubSeq(stack, Len(stack) - n + 1, Len(stack))
pop_rest(stack, n) ==
    IF n = 0 THEN stack
    ELSE IF Len(stack) <= n THEN <<>>
    ELSE SubSeq(stack, 1, Len(stack) - n)

get_current_state(s) ==
    <<s.ctm, TextState_copy(s.textstate), GraphicState_copy(s.graphicstate)>>

\* set_current_state that leaves graphicstate as it is.
set_current_state_keeps_gs(s, state) ==
    Device([s EXCEPT !.ctm = state[1], !.textstate = state[2]],
           "set_ctm", <<state[1]>>)

set_current_state(s, state) ==
    Device([s EXCEPT !.ctm = state[1], !.textstate = state[2],
                     !.graphicstate = state[3]],
           "set_ctm", <<state[1]>>)

do_q(s) == [s EXCEPT !.gstack = Append(@, get_current_state(s))]

\* do_Q that also puts scs and ncs back to those of init_state.
do_Q_resets_colorspaces(s) ==
    IF s.gstack # <<>>
    THEN [set_current_state(
              [s EXCEPT !.gstack = SubSeq(@, 1, Len(@) - 1)],
              s.gstack[Len(s.gstack)])
            EXCEPT !.scs = FirstCS, !.ncs = FirstCS]
    ELSE s

\* do_Q that notifies the device whether or not it popped.
do_Q_always_notifies(s) ==
    IF s.gstack # <<>>
    THEN set_current_state(
             [s EXCEPT !.gstack = SubSeq(@, 1, Len(@) - 1)],
             s.gstack[Len(s.gstack)])
    ELSE Device(s, "set_ctm", <<s.ctm>>)

do_Q(s) ==
    IF s.gstack # <<>>
    THEN set_current_state(
             [s EXCEPT !.gstack = SubSeq(@, 1, Len(@) - 1)],
             s.gstack[Len(s.gstack)])
    ELSE s

do_cm(s, a1, b1, c1, d1, e1, f1) ==
    IF \A x \in {a1, b1, c1, d1, e1, f1} : IsNum(x)
    THEN LET m == mult_matrix(<<a1.v, b1.v, c1.v, d1.v, e1.v, f1.v>>, s.ctm)
         IN Device([s EXCEPT !.ctm = m], "set_ctm", <<m>>)
    ELSE Raise(s, "TypeError")

do_w(s, linewidth) == [s EXCEPT !.graphicstate.linewidth = linewidth]
do_J(s, linecap) == [s EXCEPT !.graphicstate.linecap = linecap]
do_j(s, linejoin) == [s EXCEPT !.graphicstate.linejoin = linejoin]
do_M(s, miterlimit) == [s EXCEPT !.graphicstate.miterlimit = miterlimit]
do_d(s, dash, phase) == [s EXCEPT !.graphicstate.dash = <<dash, phase>>]
do_ri(s, intent) == [s EXCEPT !.graphicstate.intent = intent]
do_i(s, flatness) == [s EXCEPT !.graphicstate.flatness = flatness]
do_gs(s, name) == s

\* ------------------------------------------------------ path construction
Seg(op, xs) == [op |-> op, p |-> xs]

do_m(s, x, y) == [s EXCEPT !.curpath = Append(@, Seg("m", <<x, y>>))]
do_l(s, x, y) == [s EXCEPT !.curpath = Append(@, Seg("l", <<x, y>>))]
do_c(s, x1, y1, x2, y2, x3, y3) ==
    [s EXCEPT !.curpath = Append(@, Seg("c", <<x1, y1, x2, y2, x3, y3>>))]
do_v(s, x2, y2, x3, y3) ==
    [s EXCEPT !.curpath = Append(@, Seg("v", <<x2, y2, x3, y3>>))]
do_y(s, x1, y1, x3, y3) ==
    [s EXCEPT !.curpath = Append(@, Seg("y", <<x1, y1, x3, y3>>))]
do_h(s) == [s EXCEPT !.curpath = Append(@, Seg("h", <<>>))]

\* do_re that takes the height for the width in the second corner.
do_re_mixes_sides(s, x, y, w, h) ==
    IF \A o \in {x, y, w, h} : IsNum(o)
    THEN [s EXCEPT !.curpath = @ \o
            << Seg("m", <<x, y>>),
               Seg("l", <<Num(x.v + h.v), y>>),
               Seg("l", <<Num(x.v + w.v), Num(y.v + h.v)>>),
               Seg("l", <<x, Num(y.v + h.v)>>),
               Seg("h", <<>>) >>]
    ELSE Raise(s, "TypeError")

do_re(s, x, y, w, h) ==
    IF \A o \in {x, y, w, h} : IsNum(o)
    THEN [s EXCEPT !.curpath = @ \o
            << Seg("m", <<x, y>>),
               Seg("l", <<Num(x.v + w.v), y>>),
               Seg("l", <<Num(x.v + w.v), Num(y.v + h.v)>>),
               Seg("l", <<x, Num(y.v + h.v)>>),
               Seg("h", <<>>) >>]
    ELSE Raise(s, "TypeError")

\* The painting that leaves the path in place.
paint_path_keeps_curpath(s, stroke, fill, evenodd) ==
    Device(s, "paint_path",
           <<s.graphicstate, stroke, fill, evenodd, s.curpath>>)

paint_path(s, stroke, fill, evenodd) ==
    [Device(s, "paint_path",
            <<s.graphicstate, stroke, fill, evenodd, s.curpath>>)
       EXCEPT !.curpath = <<>>]

do_S(s) == paint_path(s, TRUE, FALSE, FALSE)
do_s(s) == do_S(do_h(s))
do_f(s) == paint_path(s, FALSE, TRUE, FALSE)
do_F(s) == s
do_f_a(s) == paint_path(s, FALSE, TRUE, TRUE)
do_B(s) == paint_path(s, TRUE, TRUE, FALSE)
do_B_a(s) == paint_path(s, TRUE, TRUE, TRUE)
do_b(s) == do_B(do_h(s))
do_b_a(s) == do_B_a(do_h(s))
do_n(s) == [s EXCEPT !.curpath = <<>>]
do_W(s) == s
do_W_a(s) == s

\* ----------------------------------------------------------- color spaces
\* literal_name: the name of a literal; of another object, its string in
\* lenient mode (never a key of csmap or fontmap) and an error in strict.
literal_name(x) ==
    IF x.t = "lit" THEN [ok |-> TRUE, name |-> CSName(x.v), id |-> x.v]
    ELSE [ok |-> ~strict, name |-> "Undefined", id |-> 0]

do_CS(s, name) ==
    LET k == literal_name(name) IN
    IF ~k.ok THEN Raise(s, "PSTypeError")
    ELSE IF k.name \in DOMAIN PREDEFINED_COLORSPACE
    THEN [s EXCEPT !.scs = PREDEFINED_COLORSPACE[k.name]]
    ELSE IF strict THEN Raise(s, "PDFInterpreterError") ELSE s

do_cs(s, name) ==
    LET k == literal_name(name) IN
    IF ~k.ok THEN Raise(s, "PSTypeError")
    ELSE IF k.name \in DOMAIN PREDEFINED_COLORSPACE
    THEN [s EXCEPT !.ncs = PREDEFINED_COLORSPACE[k.name]]
    ELSE IF strict THEN Raise(s, "PDFInterpreterError") ELSE s

do_G(s, gray) ==
    [s EXCEPT !.graphicstate.scolor = Scalar(gray),
              !.scs = PREDEFINED_COLORSPACE["DeviceGray"]]
do_g(s, gray) ==
    [s EXCEPT !.graphicstate.ncolor = Scalar(gray),
              !.ncs = PREDEFINED_COLORSPACE["DeviceGray"]]
do_RG(s, r, g, b) ==
    [s EXCEPT !.graphicstate.scolor = Tuple(<<r, g, b>>),
              !.scs = PREDEFINED_COLORSPACE["DeviceRGB"]]
do_rg(s, r, g, b) ==
    [s EXCEPT !.graphicstate.ncolor = Tuple(<<r, g, b>>),
              !.ncs = PREDEFINED_COLORSPACE["DeviceRGB"]]
do_K(s, c, m, y, k) ==
    [s EXCEPT !.graphicstate.scolor = Tuple(<<c, m, y, k>>),
              !.scs = PREDEFINED_COLORSPACE["DeviceCMYK"]]
do_k(s, c, m, y, k) ==
    [s EXCEPT !.graphicstate.ncolor = Tuple(<<c, m, y, k>>),
              !.ncs = PREDEFINED_COLORSPACE["DeviceCMYK"]]

\* do_SCN that counts the components of the nonstroking color space.
do_SCN_counts_nonstroking(s) ==
    IF s.ncs # NoCS
    THEN [s EXCEPT !.graphicstate.scolor =
                       List(pop_x(s.argstack, s.ncs.ncomponents)),
                   !.argstack = pop_rest(@, s.ncs.ncomponents)]
    ELSE IF strict THEN Raise(s, "PDFInterpreterError")
    ELSE [s EXCEPT !.graphicstate.scolor = List(pop_x(s.argstack, 1)),
                   !.argstack = pop_rest(@, 1)]

do_SCN(s) ==
    IF s.scs # NoCS
    THEN [s EXCEPT !.graphicstate.scolor =
                       List(pop_x(s.argstack, s.scs.ncomponents)),
                   !.argstack = pop_rest(@, s.scs.ncomponents)]
    ELSE IF strict THEN Raise(s, "PDFInterpreterError")
    ELSE [s EXCEPT !.graphicstate.scolor = List(pop_x(s.argstack, 1)),
                   !.argstack = pop_rest(@, 1)]

do_scn(s) ==
    IF s.ncs # NoCS
    THEN [s EXCEPT !.graphicstate.ncolor =
                       List(pop_x(s.argstack, s.ncs.ncomponents)),
                   !.argstack = pop_rest(@, s.ncs.ncomponents)]
    ELSE IF strict THEN Raise(s, "PDFInterpreterError")
    ELSE [s EXCEPT !.graphicstate.ncolor = List(pop_x(s.argstack, 1)),
                   !.argstack = pop_rest(@, 1)]

do_SC(s) == do_SCN(s)
do_sc(s) == do_scn(s)
do_sh(s, name) == s

\* -------------------------------------------------------------------- text
do_BT(s) == [s EXCEPT !.textstate = TextState_reset(@)]
do_ET(s) == s
do_BX(s) == s
do_EX(s) == s

do_MP(s, tag) == Device(s, "do_tag", <<tag>>)
do_DP(s, tag, props) == Device(s, "do_tag", <<tag, props>>)
do_BMC(s, tag) == Device(s, "begin_tag", <<tag>>)
do_BDC(s, tag, props) == Device(s, "begin_tag", <<tag, props>>)
do_EMC(s) == Device(s, "end_tag", <<>>)

do_Tc(s, space) == [s EXCEPT !.textstate.charspace = space]
do_Tw(s, space) == [s EXCEPT !.textstate.wordspace = space]
do_Tz(s, scale) == [s EXCEPT !.textstate.scaling = scale]
do_TL(s, leading) ==
    IF IsNum(leading)
    THEN [s EXCEPT !.textstate.leading = Num(-leading.v)]
    ELSE Raise(s, "TypeError")

do_Tf(s, fontid, fontsize) ==
    LET k == literal_name(fontid) IN
    IF ~k.ok THEN Raise(s, "PSTypeError")
    ELSE IF k.id \in DOMAIN FontMap
    THEN [s EXCEPT !.textstate.font = FontMap[k.id],
                   !.textstate.fontsize = fontsize]
    ELSE IF strict THEN Raise(s, "PDFInterpreterError")
    ELSE [s EXCEPT !.textstate.font = DefaultFont,
                   !.textstate.fontsize = fontsize]

do_Tr(s, render) == [s EXCEPT !.textstate.render = render]
do_Ts(s, rise) == [s EXCEPT !.textstate.rise = rise]

\* The matrix Td and TD move to: (a, b, c, d, tx*a + ty*c + e, tx*b + ty*d + f).
translated(m, tx, ty) ==
    <<m[1], m[2], m[3], m[4],
      tx * m[1] + ty * m[3] + m[5], tx * m[2] + ty * m[4] + m[6]>>

\* do_Td that moves from the origin of text space, not from (e, f).
do_Td_forgets_origin(s, tx, ty) ==
    LET tx_ == safe_float(tx)
        ty_ == safe_float(ty)
    IN IF tx_ # NoneObj /\ ty_ # NoneObj
       THEN [s EXCEPT !.textstate.matrix =
                          <<@[1], @[2], @[3], @[4],
                            tx_.v * @[1] + ty_.v * @[3],
                            tx_.v * @[2] + ty_.v * @[4]>>,
                      !.textstate.linematrix = <<0, 0>>]
       ELSE IF strict THEN Raise(s, "PDFValueError")
       ELSE [s EXCEPT !.textstate.linematrix = <<0, 0>>]

do_Td(s, tx, ty) ==
    LET tx_ == safe_float(tx)
        ty_ == safe_float(ty)
    IN IF tx_ # NoneObj /\ ty_ # NoneObj
       THEN [s EXCEPT !.textstate.matrix = translated(@, tx_.v, ty_.v),
                      !.textstate.linematrix = <<0, 0>>]
       ELSE IF strict THEN Raise(s, "PDFValueError")
       ELSE [s EXCEPT !.textstate.linematrix = <<0, 0>>]

\* do_TD that moves as do_Td does and leaves the leading alone.
do_TD_keeps_leading(s, tx, ty) == do_Td(s, tx, ty)

do_TD(s, tx, ty) ==
    LET tx_ == safe_float(tx)
        ty_ == safe_float(ty)
        moved == IF tx_ # NoneObj /\ ty_ # NoneObj
                 THEN [s EXCEPT !.textstate.matrix =
                                    translated(@, tx_.v, ty_.v)]
                 ELSE s
    IN IF (tx_ = NoneObj \/ ty_ = NoneObj) /\ strict
       THEN Raise(s, "PDFValueError")
       ELSE [moved EXCEPT
               !.textstate.leading = IF ty_ # NoneObj THEN ty_ ELSE @,
               !.textstate.linematrix = <<0, 0>>]

do_Tm(s, a, b, c, d, e, f) ==
    [s EXCEPT !.textstate.matrix = <<a.v, b.v, c.v, d.v, e.v, f.v>>,
              !.textstate.linematrix = <<0, 0>>]

do_T_a(s) ==
    LET m == s.textstate.matrix
        l == s.textstate.leading.v
    IN [s EXCEPT !.textstate.matrix =
                     <<m[1], m[2], m[3], m[4],
                       l * m[3] + m[5], l * m[4] + m[6]>>,
                 !.textstate.linematrix = <<0, 0>>]

do_TJ(s, seq, instruction_index) ==
    IF s.textstate.font = NoneObj
    THEN IF strict THEN Raise(s, "PDFInterpreterError") ELSE s
    ELSE Device(s, "render_string",
                <<s.textstate, seq, s.ncs,
                  GraphicState_copy(s.graphicstate), instruction_index>>)

\* do_Tj that hands its operand to do_TJ as it is, not as a list of one.
do_Tj_unwrapped(s, x, instruction_index) == do_TJ(s, x, instruction_index)

do_Tj(s, x, instruction_index) == do_TJ(s, List(<<x>>), instruction_index)

do__q(s, x, instruction_index) ==
    do_TJ(do_T_a(s), List(<<x>>), instruction_index)

do__w(s, aw, ac, x, instruction_index) ==
    do_TJ(do_Tc(do_Tw(s, aw), ac), List(<<x>>), instruction_index)

\* ---------------------------------------------------------------- dispatch
\* The parameters each do_ method declares after self.
\* ---------------------------------------------------- PDFResourceManager
\* The page workers that share the resource manager, and the object ids of
\* the fonts they ask for (0: the font has none).
Workers == {"w1", "w2"}
ObjIds == {0, 1, 2}
\* PDFResourceManager.__init__, with no call of get_font under way: cached
\* is _cached_fonts; made counts the Font objects constructed for each
\* objid; of each worker, pc is the place in get_font, objid the argument,
\* font the local variable; returned is what the calls have returned.
PDFResourceManager(caching) ==
    [caching |-> caching,
     cached |-> [o \in {} |-> <<>>],
     made |-> [o \in ObjIds |-> 0],
     pc |-> [w \in Workers |-> "idle"],
     objid |-> [w \in Workers |-> 0],
     font |-> [w \in Workers |-> <<>>],
     returned |-> {},
     ncalls |-> 0]

\* get_font up to the test of its first line: a hit takes the cached font.
get_font_lookup(m, w, objid) ==
    IF objid # 0 /\ objid \in DOMAIN m.cached
    THEN [m EXCEPT !.pc[w] = "return", !.objid[w] = objid,
                   !.font[w] = m.cached[objid], !.ncalls = @ + 1]
    ELSE [m EXCEPT !.pc[w] = "create", !.objid[w] = objid,
                   !.ncalls = @ + 1]
\* get_font, a miss: a Font object is constructed, the k-th for its objid.
get_font_create(m, w) ==
    [m EXCEPT !.pc[w] = "store",
              !.made[m.objid[w]] = @ + 1,
              !.font[w] = <<m.objid[w], m.made[m.objid[w]] + 1>>]
\* get_font, a miss: the font is stored when it has an objid and caching is
\* on.
get_font_store(m, w) ==
    IF m.objid[w] # 0 /\ m.caching
    THEN [m EXCEPT !.pc[w] = "return",
                   !.cached = [o \in DOMAIN @ \cup {m.objid[w]} |->
                                 IF o = m.objid[w] THEN m.font[w] ELSE @[o]]]
    ELSE [m EXCEPT !.pc[w] = "return"]
get_font_return(m, w) ==
    [m EXCEPT !.pc[w] = "idle",
              !.returned = @ \cup {<<m.objid[w], m.font[w]>>}]

\* Inline images.
do_BI(s) == s
do_ID(s) == s
\* str(id(obj)) names the object: the name is the object.
do_EI(s, obj) ==
    IF obj.t = "stream" /\ {"W", "H"} \subseteq DOMAIN obj.d
    THEN Device(Device(Device(s,
             "begin_figure", <<obj, <<0, 0, 1, 1>>, MATRIX_IDENTITY>>),
             "render_image", <<obj, obj>>),
             "end_figure", <<obj>>)
    ELSE s

\* ------------------------------------------------------- PDFContentParser
\* The bytes of a content stream are strings of one character.
isspace(c) == c \in {" ", "\n", "\r"}

\* get_inline_data: i is the number of bytes of the target and of the byte
\* after it that match, charpos the bytes of buf read, data the bytes kept.
\* fillbuf finds no byte left in the one stream: PSEOF. At the end the
\* target and the byte after it are cut off, then every match of
\* (\r\n|[\r\n])$ is removed, $ being the end or the place before a last \n.
RECURSIVE inline_scan(_, _, _, _, _)
inline_scan(buf, target, i, charpos, data) ==
    IF i > Len(target)
    THEN LET cut == SubSeq(data, 1, Len(data) - (Len(target) + 1))
             n == Len(cut)
         IN [eof |-> FALSE, charpos |-> charpos,
             data |->
               IF n >= 1 /\ cut[n] = "\n"
               THEN IF n >= 3 /\ cut[n - 2] = "\r" /\ cut[n - 1] = "\n"
                    THEN SubSeq(cut, 1, n - 3)
                    ELSE IF n >= 2 /\ cut[n - 1] \in {"\r", "\n"}
                    THEN SubSeq(cut, 1, n - 2)
                    ELSE SubSeq(cut, 1, n - 1)
               ELSE IF n >= 1 /\ cut[n] = "\r" THEN SubSeq(cut, 1, n - 1)
               ELSE cut]
    ELSE IF charpos >= Len(buf)
    THEN [eof |-> TRUE, charpos |-> charpos, data |-> <<>>]
    ELSE LET c == buf[charpos + 1]
             found == {j \in (charpos + 1)..Len(buf) : buf[j] = target[1]}
             j == CHOOSE x \in found : \A y \in found : x <= y
         IN inline_scan(buf, target,
              CASE i # 0 /\ (\/ Len(target) <= i /\ isspace(c)
                             \/ i < Len(target) /\ c = target[i + 1])
                     -> i + 1
                [] i = 0 /\ found # {} -> 1
                [] OTHER -> 0,
              CASE i # 0 -> charpos + 1
                [] i = 0 /\ found # {} -> j
                [] OTHER -> Len(buf),
              CASE i # 0 -> Append(data, c)
                [] i = 0 /\ found # {} -> data \o SubSeq(buf, charpos + 1, j)
                [] OTHER -> data \o SubSeq(buf, charpos + 1, Len(buf)))

\* get_inline_data from byte pos on (pos counts the bytes before it).
get_inline_data(buf, pos, target) == inline_scan(buf, target, 0, pos, <<>>)

\* The names of an inline image's dictionary.
InlineName(n) ==
    CASE n = 1 -> "F" [] n = 2 -> "W" [] n = 3 -> "H" [] n = 4 -> "A85"
      [] n = 5 -> "ASCII85Decode" [] n = 6 -> "Fl" [] OTHER -> "Undefined"
LITERALS_ASCII85_DECODE == {Lit(5), Lit(4)}
PDFStream(d, data) == [t |-> "stream", d |-> d, data |-> data]

\* do_keyword for which EI ends the data of every image.
do_keyword_ends_at_EI(p, token, instruction_index) ==
    IF token = "BI"
    THEN [p EXCEPT !.context = Append(@, <<p.curtype, p.curstack>>),
                   !.curtype = "inline", !.curstack = <<>>]
    ELSE IF token = "ID"
    THEN LET objs == [i \in DOMAIN p.curstack |-> p.curstack[i].obj]
             ended == [p EXCEPT
                         !.curtype = p.context[Len(p.context)][1],
                         !.curstack = p.context[Len(p.context)][2],
                         !.context = SubSeq(@, 1, Len(@) - 1)]
             pairs == 1..(Len(objs) \div 2)
             keys == {InlineName(literal_name(objs[2 * i - 1]).id) :
                        i \in pairs}
             d == [k \in keys |->
                     LET i == CHOOSE x \in pairs :
                                /\ InlineName(literal_name(objs[2 * x - 1]).id)
                                     = k
                                /\ \A y \in pairs :
                                     InlineName(
                                        literal_name(objs[2 * y - 1]).id) = k
                                       => y <= x
                     IN objs[2 * i]]
             filter == IF "F" \in keys THEN d["F"] ELSE NoneObj
             listed == IF filter.t = "lit" THEN <<filter>> ELSE filter.c
             eos == <<"E", "I">>
             image(r) ==
                 IF r.eof
                 THEN [ended EXCEPT !.charpos = r.charpos, !.eof = TRUE]
                 ELSE [ended EXCEPT
                         !.charpos = r.charpos,
                         !.curstack =
                           IF eos = <<"E", "I">>
                           THEN @ \o <<Obj(PDFStream(d, r.data)), Kw("EI")>>
                           ELSE Append(@,
                                  Obj(PDFStream(d, r.data \o eos)))]
         IN IF p.curtype # "inline"
            THEN IF strict THEN [p EXCEPT !.err = "PSTypeError"] ELSE p
            ELSE IF Len(objs) % 2 # 0
                    \/ \E i \in pairs : ~literal_name(objs[2 * i - 1]).ok
            THEN IF strict THEN [ended EXCEPT !.err = "PSTypeError"]
                 ELSE ended
            ELSE IF filter # NoneObj /\ filter.t \notin {"lit", "list"}
            THEN [ended EXCEPT !.err = "TypeError"]
            ELSE IF filter # NoneObj /\ listed = <<>>
            THEN [ended EXCEPT !.err = "IndexError"]
            ELSE image(get_inline_data(p.buf, p.charpos, eos))
    ELSE [p EXCEPT !.curstack = Append(@, Kw(token))]

\* do_keyword of the parser p: BI begins the type inline, ID ends it, makes
\* the dictionary of the operands read since BI and reads the data from
\* the byte after `ID ` on; any other keyword is pushed with its index.
do_keyword(p, token, instruction_index) ==
    IF token = "BI"
    THEN [p EXCEPT !.context = Append(@, <<p.curtype, p.curstack>>),
                   !.curtype = "inline", !.curstack = <<>>]
    ELSE IF token = "ID"
    THEN LET objs == [i \in DOMAIN p.curstack |-> p.curstack[i].obj]
             ended == [p EXCEPT
                         !.curtype = p.context[Len(p.context)][1],
                         !.curstack = p.context[Len(p.context)][2],
                         !.context = SubSeq(@, 1, Len(@) - 1)]
             pairs == 1..(Len(objs) \div 2)
             keys == {InlineName(literal_name(objs[2 * i - 1]).id) :
                        i \in pairs}
             d == [k \in keys |->
                     LET i == CHOOSE x \in pairs :
                                /\ InlineName(literal_name(objs[2 * x - 1]).id)
                                     = k
                                /\ \A y \in pairs :
                                     InlineName(
                                        literal_name(objs[2 * y - 1]).id) = k
                                       => y <= x
                     IN objs[2 * i]]
             filter == IF "F" \in keys THEN d["F"] ELSE NoneObj
             listed == IF filter.t = "lit" THEN <<filter>> ELSE filter.c
             eos == IF filter # NoneObj /\ listed[1] \in LITERALS_ASCII85_DECODE
                    THEN <<"~", ">">> ELSE <<"E", "I">>
             image(r) ==
                 IF r.eof
                 THEN [ended EXCEPT !.charpos = r.charpos, !.eof = TRUE]
                 ELSE [ended EXCEPT
                         !.charpos = r.charpos,
                         !.curstack =
                           IF eos = <<"E", "I">>
                           THEN @ \o <<Obj(PDFStream(d, r.data)), Kw("EI")>>
                           ELSE Append(@,
                                  Obj(PDFStream(d, r.data \o eos)))]
         IN IF p.curtype # "inline"
            THEN IF strict THEN [p EXCEPT !.err = "PSTypeError"] ELSE p
            ELSE IF Len(objs) % 2 # 0
                    \/ \E i \in pairs : ~literal_name(objs[2 * i - 1]).ok
            THEN IF strict THEN [ended EXCEPT !.err = "PSTypeError"]
                 ELSE ended
            ELSE IF filter # NoneObj /\ filter.t \notin {"lit", "list"}
            THEN [ended EXCEPT !.err = "TypeError"]
            ELSE IF filter # NoneObj /\ listed = <<>>
            THEN [ended EXCEPT !.err = "IndexError"]
            ELSE image(get_inline_data(p.buf, p.charpos, eos))
    ELSE [p EXCEPT !.curstack = Append(@, Kw(token))]

\* The tokenizer on the bytes after an image: white space is skipped, the
\* bytes up to the next white space are a keyword, EI when they are E and
\* I and a name that is no operator otherwise (xx); none at the end.
nexttoken(buf, charpos) ==
    LET starts == {j \in (charpos + 1)..Len(buf) : ~isspace(buf[j])}
        first == CHOOSE x \in starts : \A y \in starts : x <= y
        ends == {j \in first..Len(buf) :
                   j = Len(buf) \/ isspace(buf[j + 1])}
        end == CHOOSE x \in ends : \A y \in ends : x <= y
    IN IF starts = {} THEN [eof |-> TRUE, charpos |-> Len(buf), token |-> Kw("")]
       ELSE [eof |-> FALSE, charpos |-> end,
             token |-> IF SubSeq(buf, first, end) = <<"E", "I">>
                       THEN Kw("EI") ELSE Kw("xx")]

\* The parser of a content stream: ahead are the tokens up to the ID of an
\* inline image, buf the bytes after `ID ` and charpos how many of them are
\* read; curtype, curstack and context are the stack of the open types,
\* results what execute has not been handed yet, got what it was handed.
PDFContentParser(ahead, buf) ==
    [on |-> TRUE, ahead |-> ahead, buf |-> buf, charpos |-> 0,
     curtype |-> "", curstack |-> <<>>, context |-> <<>>,
     results |-> <<>>, got |-> Kw(""), eof |-> FALSE, err |-> ""]
\* The parser of the streams whose tokens the steps choose.
NoParser == [PDFContentParser(<<>>, <<>>) EXCEPT !.on = FALSE]

\* nextobject: tokens are read until there are results: an operand is
\* pushed, a keyword goes to do_keyword, and outside BI .. ID what was
\* pushed is flushed to the results; the first result is returned (got).
\* PSEOF when no token is left.
RECURSIVE nextobject(_)
nextobject(p) ==
    IF ~p.on \/ p.eof \/ p.err # "" THEN p
    ELSE IF p.results # <<>>
    THEN [p EXCEPT !.got = Head(p.results), !.results = Tail(@)]
    ELSE LET t == nexttoken(p.buf, p.charpos)
             token == IF p.ahead # <<>> THEN Head(p.ahead) ELSE t.token
             q == IF p.ahead # <<>> THEN [p EXCEPT !.ahead = Tail(@)]
                  ELSE [p EXCEPT !.charpos = t.charpos]
             flush(read) ==
                 IF read.curtype # "" THEN read
                 ELSE [read EXCEPT !.results = @ \o read.curstack,
                                   !.curstack = <<>>]
         IN IF p.ahead = <<>> /\ t.eof THEN [p EXCEPT !.eof = TRUE]
            ELSE nextobject(flush(
                   IF token.k = "keyword"
                   THEN do_keyword(q, token.name, NoneObj)
                   ELSE [q EXCEPT !.curstack = Append(@, token)]))

Params(name) ==
    CASE name \in {"q", "Q", "h", "S", "s", "f", "F", "f*", "B", "B*", "b",
                   "b*", "n", "W", "W*", "SCN", "scn", "SC", "sc", "BT",
                   "ET", "BX", "EX", "EMC", "T*", "BI", "ID"} -> <<>>
      [] name = "w" -> <<"linewidth">>
      [] name = "J" -> <<"linecap">>
      [] name = "j" -> <<"linejoin">>
      [] name = "M" -> <<"miterlimit">>
      [] name = "d" -> <<"dash", "phase">>
      [] name = "ri" -> <<"intent">>
      [] name = "i" -> <<"flatness">>
      [] name \in {"gs", "CS", "cs", "sh"} -> <<"name">>
      [] name \in {"m", "l"} -> <<"x", "y">>
      [] name \in {"cm", "Tm"} -> <<"a", "b", "c", "d", "e", "f">>
      [] name = "c" -> <<"x1", "y1", "x2", "y2", "x3", "y3">>
      [] name = "v" -> <<"x2", "y2", "x3", "y3">>
      [] name = "y" -> <<"x1", "y1", "x3", "y3">>
      [] name = "re" -> <<"x", "y", "w", "h">>
      [] name \in {"G", "g"} -> <<"gray">>
      [] name \in {"RG", "rg"} -> <<"r", "g", "b">>
      [] name \in {"K", "k"} -> <<"c", "m", "y", "k">>
      [] name \in {"MP", "BMC"} -> <<"tag">>
      [] name \in {"DP", "BDC"} -> <<"tag", "props">>
      [] name \in {"Tc", "Tw"} -> <<"space">>
      [] name = "Tz" -> <<"scale">>
      [] name = "TL" -> <<"leading">>
      [] name = "Tf" -> <<"fontid", "fontsize">>
      [] name = "Tr" -> <<"render">>
      [] name = "Ts" -> <<"rise">>
      [] name \in {"Td", "TD"} -> <<"tx", "ty">>
      [] name = "TJ" -> <<"seq", "instruction_index">>
      [] name \in {"Tj", "'"} -> <<"s", "instruction_index">>
      [] name = "\"" -> <<"aw", "ac", "s", "instruction_index">>
      [] name = "EI" -> <<"obj">>
      [] name = "Do" -> <<"xobjid_arg">>

\* The keywords for which the interpreter has a do_ method.
Handlers ==
    {"q", "Q", "cm", "w", "J", "j", "M", "d", "ri", "i", "gs", "m", "l", "c",
     "v", "y", "h", "re", "S", "s", "f", "F", "f*", "B", "B*", "b", "b*",
     "n", "W", "W*", "CS", "cs", "G", "g", "RG", "rg", "K", "k", "SCN",
     "scn", "SC", "sc", "sh", "BT", "ET", "BX", "EX", "MP", "DP", "BMC",
     "BDC", "EMC", "Tc", "Tw", "Tz", "TL", "Tf", "Tr", "Ts", "Td", "TD",
     "Tm", "T*", "TJ", "Tj", "'", "\"", "BI", "ID", "EI", "Do"}

\* "do_%s" % name.replace("*", "_a").replace('"', "_w").replace("'", "_q")
Method(name) ==
    CASE name = "f*" -> "do_f_a"
      [] name = "B*" -> "do_B_a"
      [] name = "b*" -> "do_b_a"
      [] name = "W*" -> "do_W_a"
      [] name = "T*" -> "do_T_a"
      [] name = "\"" -> "do__w"
      [] name = "'" -> "do__q"
      [] OTHER -> "do_" \o name

\* The methods execute passes the instruction index to.
IndexedMethods == {"do_TJ", "do_Tj", "do_T_w", "do_T_q"}

\* nargs of execute: co_argcount - 1, less one for the methods above.
Nargs(name) ==
    IF Method(name) \in IndexedMethods
    THEN Len(Params(name)) - 1
    ELSE Len(Params(name))

\* func(*a): a[i] is bound to the i-th parameter, instruction_index is
\* None when a has no value for it.
Opt(a, i) == IF Len(a) >= i THEN a[i] ELSE NoneObj
RECURSIVE do_Do(_, _)
Apply(s, name, a) ==
    CASE name = "q" -> do_q(s)
      [] name = "Q" -> do_Q(s)
      [] name = "cm" -> do_cm(s, a[1], a[2], a[3], a[4], a[5], a[6])
      [] name = "w" -> do_w(s, a[1])
      [] name = "J" -> do_J(s, a[1])
      [] name = "j" -> do_j(s, a[1])
      [] name = "M" -> do_M(s, a[1])
      [] name = "d" -> do_d(s, a[1], a[2])
      [] name = "ri" -> do_ri(s, a[1])
      [] name = "i" -> do_i(s, a[1])
      [] name = "gs" -> do_gs(s, a[1])
      [] name = "m" -> do_m(s, a[1], a[2])
      [] name = "l" -> do_l(s, a[1], a[2])
      [] name = "c" -> do_c(s, a[1], a[2], a[3], a[4], a[5], a[6])
      [] name = "v" -> do_v(s, a[1], a[2], a[3], a[4])
      [] name = "y" -> do_y(s, a[1], a[2], a[3], a[4])
      [] name = "h" -> do_h(s)
      [] name = "re" -> do_re(s, a[1], a[2], a[3], a[4])
      [] name = "S" -> do_S(s)
      [] name = "s" -> do_s(s)
      [] name = "f" -> do_f(s)
      [] name = "F" -> do_F(s)
      [] name = "f*" -> do_f_a(s)
      [] name = "B" -> do_B(s)
      [] name = "B*" -> do_B_a(s)
      [] name = "b" -> do_b(s)
      [] name = "b*" -> do_b_a(s)
      [] name = "n" -> do_n(s)
      [] name = "W" -> do_W(s)
      [] name = "W*" -> do_W_a(s)
      [] name = "CS" -> do_CS(s, a[1])
      [] name = "cs" -> do_cs(s, a[1])
      [] name = "G" -> do_G(s, a[1])
      [] name = "g" -> do_g(s, a[1])
      [] name = "RG" -> do_RG(s, a[1], a[2], a[3])
      [] name = "rg" -> do_rg(s, a[1], a[2], a[3])
      [] name = "K" -> do_K(s, a[1], a[2], a[3], a[4])
      [] name = "k" -> do_k(s, a[1], a[2], a[3], a[4])
      [] name = "SCN" -> do_SCN(s)
      [] name = "scn" -> do_scn(s)
      [] name = "SC" -> do_SC(s)
      [] name = "sc" -> do_sc(s)
      [] name = "sh" -> do_sh(s, a[1])
      [] name = "BT" -> do_BT(s)
      [] name = "ET" -> do_ET(s)
      [] name = "BX" -> do_BX(s)
      [] name = "EX" -> do_EX(s)
      [] name = "MP" -> do_MP(s, a[1])
      [] name = "DP" -> do_DP(s, a[1], a[2])
      [] name = "BMC" -> do_BMC(s, a[1])
      [] name = "BDC" -> do_BDC(s, a[1], a[2])
      [] name = "EMC" -> do_EMC(s)
      [] name = "Tc" -> do_Tc(s, a[1])
      [] name = "Tw" -> do_Tw(s, a[1])
      [] name = "Tz" -> do_Tz(s, a[1])
      [] name = "TL" -> do_TL(s, a[1])
      [] name = "Tf" -> do_Tf(s, a[1], a[2])
      [] name = "Tr" -> do_Tr(s, a[1])
      [] name = "Ts" -> do_Ts(s, a[1])
      [] name = "Td" -> do_Td(s, a[1], a[2])
      [] name = "TD" -> do_TD(s, a[1], a[2])
      [] name = "Tm" -> do_Tm(s, a[1], a[2], a[3], a[4], a[5], a[6])
      [] name = "T*" -> do_T_a(s)
      [] name = "TJ" -> do_TJ(s, a[1], Opt(a, 2))
      [] name = "Tj" -> do_Tj(s, a[1], Opt(a, 2))
      [] name = "'" -> do__q(s, a[1], Opt(a, 2))
      [] name = "\"" -> do__w(s, a[1], a[2], a[3], Opt(a, 4))
      [] name = "BI" -> do_BI(s)
      [] name = "ID" -> do_ID(s)
      [] name = "EI" -> do_EI(s, a[1])
      [] name = "Do" -> do_Do(s, a[1])

\* What execute hands to func when it calls it for keyword `name`.
Passed(s, name, instruction_index) ==
    LET args == pop_x(s.argstack, Nargs(name)) IN
    IF Method(name) \in IndexedMethods
    THEN Append(args, instruction_index)
    ELSE args

\* Whether execute calls func for keyword `name`.
Invoked(s, name) ==
    /\ name \in Handlers
    /\ Nargs(name) # 0 => Len(pop_x(s.argstack, Nargs(name))) = Nargs(name)

\* execute that calls func on underflow too, None for the operands missing.
execute_keyword_calls_short(s, name, instruction_index) ==
    IF name \in Handlers
    THEN IF Nargs(name) # 0
         THEN LET popped == [s EXCEPT !.argstack = pop_rest(@, Nargs(name))]
                  args == pop_x(s.argstack, Nargs(name))
                  none == [i \in 1..(Nargs(name) - Len(args)) |-> NoneObj]
              IN IF Invoked(s, name)
                 THEN Apply(popped, name, Passed(s, name, instruction_index))
                 ELSE Apply(popped, name, args \o none)
         ELSE Apply(s, name, <<>>)
    ELSE IF strict THEN Raise(s, "PDFInterpreterError")
    ELSE s

\* execute that drops the waiting operands at an unknown keyword and
\* never raises for it.
execute_keyword_unknown_flushes(s, name, instruction_index) ==
    IF name \in Handlers
    THEN IF Nargs(name) # 0
         THEN LET popped == [s EXCEPT !.argstack = pop_rest(@, Nargs(name))]
              IN IF Invoked(s, name)
                 THEN Apply(popped, name, Passed(s, name, instruction_index))
                 ELSE popped
         ELSE Apply(s, name, <<>>)
    ELSE [s EXCEPT !.argstack = <<>>]

\* One round of the loop of execute on a keyword token.
execute_keyword(s, name, instruction_index) ==
    IF name \in Handlers
    THEN IF Nargs(name) # 0
         THEN LET popped == [s EXCEPT !.argstack = pop_rest(@, Nargs(name))]
              IN IF Invoked(s, name)
                 THEN Apply(popped, name, Passed(s, name, instruction_index))
                 ELSE popped
         ELSE Apply(s, name, <<>>)
    ELSE IF strict THEN Raise(s, "PDFInterpreterError")
    ELSE s

\* execute on the tokens of a content stream, index the instruction index
\* of its next operator; an exception ends it.
RECURSIVE execute(_, _, _)
execute(s, tokens, index) ==
    IF tokens = <<>> \/ s.err # "" THEN s
    ELSE IF Head(tokens).k = "keyword"
    THEN execute(execute_keyword(s, Head(tokens).name, Num(index)),
                 Tail(tokens), index + 1)
    ELSE execute(push(s, Head(tokens).obj), Tail(tokens), index)

\* render_contents of an interpreter made by dup(): init_state(ctm), then
\* execute; made is what the device was called with before.
render_contents(made, streams, ctm0) ==
    execute([init_state(ctm0) EXCEPT !.calls = made \o @], streams, 0)

\* do_Do whose duplicate runs on the gstack of its parent.
do_Do_shares_gstack(s, xobjid_arg) ==
    LET k == literal_name(xobjid_arg)
        xobj == XObjMap[k.id]
        matrix == IF "Matrix" \in DOMAIN xobj THEN xobj.Matrix
                  ELSE MATRIX_IDENTITY
        made == Device(s, "begin_figure", <<k.id, xobj.BBox, matrix>>).calls
        interpreter ==
            execute([init_state(mult_matrix(matrix, s.ctm))
                       EXCEPT !.calls = made \o @, !.gstack = s.gstack],
                    xobj.Content, 0)
    IN IF ~k.ok THEN Raise(s, "PSTypeError")
       ELSE IF k.id \notin DOMAIN XObjMap
       THEN IF strict THEN Raise(s, "PDFInterpreterError") ELSE s
       ELSE IF xobj.Subtype = "Form" /\ "BBox" \in DOMAIN xobj
       THEN IF interpreter.err # ""
            THEN [s EXCEPT !.calls = interpreter.calls,
                           !.gstack = interpreter.gstack,
                           !.err = interpreter.err]
            ELSE Device([s EXCEPT !.calls = interpreter.calls,
                                  !.gstack = interpreter.gstack],
                        "end_figure", <<k.id>>)
       ELSE IF xobj.Subtype = "Image"
               /\ {"Width", "Height"} \subseteq DOMAIN xobj
       THEN Device(Device(Device(s,
                "begin_figure", <<k.id, <<0, 0, 1, 1>>, MATRIX_IDENTITY>>),
                "render_image", <<k.id, xobj>>),
                "end_figure", <<k.id>>)
       ELSE s

\* do_Do that starts the form with the ctm of its parent.
do_Do_keeps_ctm(s, xobjid_arg) ==
    LET k == literal_name(xobjid_arg)
        xobj == XObjMap[k.id]
        matrix == IF "Matrix" \in DOMAIN xobj THEN xobj.Matrix
                  ELSE MATRIX_IDENTITY
        interpreter ==
            render_contents(
                Device(s, "begin_figure", <<k.id, xobj.BBox, matrix>>).calls,
                xobj.Content, s.ctm)
    IN IF ~k.ok THEN Raise(s, "PSTypeError")
       ELSE IF k.id \notin DOMAIN XObjMap
       THEN IF strict THEN Raise(s, "PDFInterpreterError") ELSE s
       ELSE IF xobj.Subtype = "Form" /\ "BBox" \in DOMAIN xobj
       THEN IF interpreter.err # ""
            THEN [s EXCEPT !.calls = interpreter.calls,
                           !.err = interpreter.err]
            ELSE Device([s EXCEPT !.calls = interpreter.calls],
                        "end_figure", <<k.id>>)
       ELSE IF xobj.Subtype = "Image"
               /\ {"Width", "Height"} \subseteq DOMAIN xobj
       THEN Device(Device(Device(s,
                "begin_figure", <<k.id, <<0, 0, 1, 1>>, MATRIX_IDENTITY>>),
                "render_image", <<k.id, xobj>>),
                "end_figure", <<k.id>>)
       ELSE s

do_Do(s, xobjid_arg) ==
    LET k == literal_name(xobjid_arg)
        xobj == XObjMap[k.id]
        matrix == IF "Matrix" \in DOMAIN xobj THEN xobj.Matrix
                  ELSE MATRIX_IDENTITY
        interpreter ==
            render_contents(
                Device(s, "begin_figure", <<k.id, xobj.BBox, matrix>>).calls,
                xobj.Content, mult_matrix(matrix, s.ctm))
    IN IF ~k.ok THEN Raise(s, "PSTypeError")
       ELSE IF k.id \notin DOMAIN XObjMap
       THEN IF strict THEN Raise(s, "PDFInterpreterError") ELSE s
       ELSE IF xobj.Subtype = "Form" /\ "BBox" \in DOMAIN xobj
       THEN IF interpreter.err # ""
            THEN [s EXCEPT !.calls = interpreter.calls,
                           !.err = interpreter.err]
            ELSE Device([s EXCEPT !.calls = interpreter.calls],
                        "end_figure", <<k.id>>)
       ELSE IF xobj.Subtype = "Image"
               /\ {"Width", "Height"} \subseteq DOMAIN xobj
       THEN Device(Device(Device(s,
                "begin_figure", <<k.id, <<0, 0, 1, 1>>, MATRIX_IDENTITY>>),
                "render_image", <<k.id, xobj>>),
                "end_figure", <<k.id>>)
       ELSE s

\* process_page that takes every page for an upright one.
process_page_ignores_rotate(s, page) ==
    LET x0 == page.mediabox[1]
        y0 == page.mediabox[2]
        ctm0 == <<1, 0, 0, 1, -x0, -y0>>
        r == render_contents(<<[f |-> "begin_page", a |-> <<page, ctm0>>]>>,
                             page.contents, ctm0)
    IN IF r.err # "" THEN r ELSE Device(r, "end_page", <<page>>)

\* process_page: the interpreter s renders the page; an exception of the
\* content leaves before end_page.
process_page(s, page) ==
    LET x0 == page.mediabox[1]
        y0 == page.mediabox[2]
        x1 == page.mediabox[3]
        y1 == page.mediabox[4]
        ctm0 == CASE page.rotate = 90 -> <<0, -1, 1, 0, -y0, x1>>
                  [] page.rotate = 180 -> <<-1, 0, 0, -1, x1, y1>>
                  [] page.rotate = 270 -> <<0, 1, -1, 0, y1, -x0>>
                  [] OTHER -> <<1, 0, 0, 1, -x0, -y0>>
        r == render_contents(<<[f |-> "begin_page", a |-> <<page, ctm0>>]>>,
                             page.contents, ctm0)
    IN IF r.err # "" THEN r ELSE Device(r, "end_page", <<page>>)

\* ----------------------------------------------------------------- history
\* The operands a keyword takes: the parameters of its method but the
\* instruction index; SCN, SC, scn and sc take the components of the
\* current color space.
FixedArity(name) ==
    Cardinality({i \in DOMAIN Params(name) :
                   Params(name)[i] # "instruction_index"})
Arity(s, name) ==
    CASE name \in {"SCN", "SC"} ->
           IF s.scs # NoCS THEN s.scs.ncomponents ELSE 1
      [] name \in {"scn", "sc"} ->
           IF s.ncs # NoCS THEN s.ncs.ncomponents ELSE 1
      [] OTHER -> FixedArity(name)

PathOps == {"m", "l", "c", "v", "y", "h", "re"}
PaintOps == {"S", "s", "f", "F", "f*", "B", "B*", "b", "b*", "n"}

\* legal.ok: every operator so far was a known one, was preceded by exactly
\* its operands, and every Q had an open q; legal.depth: the q not yet
\* matched; legal.path: a path is under construction; legal.pending: the
\* operands read since the latest operator.
\* Once the stream is not legal the rest of the record is of no interest.
Illegal == [ok |-> FALSE, pending |-> 0, depth |-> 0, path |-> FALSE]
LegalAfter(name) ==
    IF /\ legal.ok
       /\ name \in Handlers
       /\ legal.pending = Arity([scs |-> scs, ncs |-> ncs], name)
       /\ name = "Q" => legal.depth > 0
    THEN [ok |-> TRUE,
          pending |-> 0,
          depth |-> CASE name = "q" -> legal.depth + 1
                      [] name = "Q" -> legal.depth - 1
                      [] OTHER -> legal.depth,
          path |-> CASE name \in PathOps -> TRUE
                     [] name \in PaintOps -> FALSE
                     [] OTHER -> legal.path]
    ELSE Illegal

\* text.n: the Td read since the latest BT, when nothing but they moved
\* the text matrix since (-1 otherwise, and before any BT); text.tm: the
\* text matrix the latest of them found; text.off: its operands;
\* text.open: a BT was read and no ET since.
NoText == [n |-> -1, tm |-> <<>>, off |-> <<>>, open |-> FALSE]
TextAfter(name) ==
    LET a == pop_x(argstack, 2) IN
    CASE name = "BT" -> [n |-> 0, tm |-> <<>>, off |-> <<>>, open |-> TRUE]
      [] name = "ET" -> [text EXCEPT !.open = FALSE]
      [] name = "Td" /\ text.n >= 0 /\ Len(a) = 2
           /\ (\A i \in DOMAIN a : IsNum(a[i])) ->
           [n |-> text.n + 1, tm |-> textstate.matrix,
            off |-> <<a[1].v, a[2].v>>, open |-> text.open]
      [] name \in {"Td", "TD", "Tm", "T*", "'", "\"", "Q"} ->
           [NoText EXCEPT !.open = text.open]
      [] OTHER -> text

SavedAfter(name) ==
    CASE name = "q" -> Append(saved, <<ctm, textstate, graphicstate>>)
      [] name = "Q" /\ saved # <<>> -> SubSeq(saved, 1, Len(saved) - 1)
      [] OTHER -> saved

\* ------------------------------------------------------------------ actions
vars == <<strict, status, instr, gstack, ctm, textstate, graphicstate,
          curpath, argstack, scs, ncs, calls, last, saved, legal, text,
          parser, rsrcmgr, devctm>>

Self ==
    [gstack |-> gstack, ctm |-> ctm, calls |-> <<>>,
     textstate |-> textstate, graphicstate |-> graphicstate,
     curpath |-> curpath, argstack |-> argstack,
     scs |-> scs, ncs |-> ncs, err |-> ""]

Becomes(r) ==
    /\ gstack' = r.gstack
    /\ ctm' = r.ctm
    /\ textstate' = r.textstate
    /\ graphicstate' = r.graphicstate
    /\ curpath' = r.curpath
    /\ argstack' = r.argstack
    /\ scs' = r.scs
    /\ ncs' = r.ncs
    /\ calls' = r.calls
    /\ devctm' = set_ctm(r.calls, devctm)
    /\ status' = IF r.err # "" THEN "raised" ELSE "running"

\* What is remembered of the latest step: the token read (kind, op, the
\* tokenizer's instruction index), whether execute called the handler and
\* with what, the lengths of argstack and gstack when the token was read,
\* and which of ctm, textstate, graphicstate the step changed.
Token(kind, op, invoked, passed, index, r) ==
    [kind |-> kind, op |-> op, invoked |-> invoked, passed |-> passed,
     index |-> index, had |-> Len(argstack), depth |-> Len(gstack),
     moved |-> {f \in {"ctm", "textstate", "graphicstate"} :
                  \/ f = "ctm" /\ r.ctm # ctm
                  \/ f = "textstate" /\ r.textstate # textstate
                  \/ f = "graphicstate" /\ r.graphicstate # graphicstate}]

\* render_contents: init_state(ctm).
InitInterpreter ==
    /\ strict \in BOOLEAN
    /\ instr = 0
    /\ status = "running"
    /\ LET r == init_state(MATRIX_IDENTITY) IN
         /\ gstack = r.gstack
         /\ ctm = r.ctm
         /\ textstate = r.textstate
         /\ graphicstate = r.graphicstate
         /\ curpath = r.curpath
         /\ argstack = r.argstack
         /\ scs = r.scs
         /\ ncs = r.ncs
         /\ calls = r.calls
         /\ devctm = set_ctm(r.calls, MATRIX_IDENTITY)
    /\ last = [kind |-> "init", op |-> "", invoked |-> FALSE,
               passed |-> <<>>, index |-> NoneObj, had |-> 0, depth |-> 0,
               moved |-> {}]
    /\ saved = <<>>
    /\ legal = [ok |-> TRUE, pending |-> 0, depth |-> 0, path |-> FALSE]
    /\ text = NoText

\* render_contents: init_state(ctm), then execute on a fresh parser.
Init ==
    /\ InitInterpreter
    /\ parser = NoParser
    /\ rsrcmgr = PDFResourceManager(TRUE)

\* execute: the token is an operand.
Operand(obj) ==
    /\ status = "running"
    /\ Len(argstack) < MaxArgs
    /\ Becomes(push(Self, obj))
    /\ last' = Token("operand", "", FALSE, <<obj>>, NoneObj, Self)
    /\ legal' = IF legal.ok THEN [legal EXCEPT !.pending = @ + 1]
                 ELSE Illegal
    /\ parser' = nextobject(parser)
    /\ UNCHANGED <<strict, instr, saved, text, rsrcmgr>>

\* execute: the token is the keyword `name`, the instr-th operator.
Keyword(name) ==
    /\ status = "running"
    /\ instr < MaxInstr
    /\ Becomes(execute_keyword(Self, name, Num(instr)))
    /\ instr' = instr + 1
    /\ last' = Token("keyword", name, Invoked(Self, name),
                     IF Invoked(Self, name)
                     THEN Passed(Self, name, Num(instr)) ELSE <<>>,
                     Num(instr), execute_keyword(Self, name, Num(instr)))
    /\ saved' = SavedAfter(name)
    /\ legal' = LegalAfter(name)
    /\ text' = TextAfter(name)
    /\ parser' = nextobject(parser)
    /\ UNCHANGED <<strict, rsrcmgr>>

\* execute: PSEOF ends the loop.
Eof ==
    /\ status = "running"
    /\ status' = "done"
    /\ calls' = <<>>
    /\ last' = Token("eof", "", FALSE, <<>>, NoneObj, Self)
    /\ parser' = nextobject(parser)
    /\ UNCHANGED <<rsrcmgr, devctm, strict, instr, gstack, ctm, textstate, graphicstate,
                   curpath, argstack, scs, ncs, saved, legal, text>>

\* The pages read: mediabox corners, rotation (450 is none of the four the
\* code tells apart), and as contents `1 1 m S`, `q 1 w /X1 Do Q` and
\* `1 w xx 1 1 m S` with its unknown operator.
Pages ==
    [mediabox : {<<x0, y0, x1, y1>> : x0 \in {0, 1}, y0 \in {0, 2},
                                       x1 \in {612}, y1 \in {792, 800}},
     rotate : {0, 90, 180, 270, 450},
     contents : {<<Obj(Num(1)), Obj(Num(1)), Kw("m"), Kw("S")>>,
                 <<Kw("q"), Obj(Num(1)), Kw("w"), Obj(Lit(1)), Kw("Do"),
                   Kw("Q")>>,
                 <<Obj(Num(1)), Kw("w"), Kw("xx"), Obj(Num(1)),
                   Obj(Num(1)), Kw("m"), Kw("S")>>}]

\* process_page on the page: the interpreter is left as the page's content
\* left it; one interpreter processes page after page until one raises.
ProcessPage(page) ==
    /\ status \in {"running", "done"}
    /\ LET r == process_page(Self, page) IN
         /\ gstack' = r.gstack
         /\ ctm' = r.ctm
         /\ textstate' = r.textstate
         /\ graphicstate' = r.graphicstate
         /\ curpath' = r.curpath
         /\ argstack' = r.argstack
         /\ scs' = r.scs
         /\ ncs' = r.ncs
         /\ calls' = r.calls
         /\ devctm' = set_ctm(r.calls, devctm)
         /\ status' = IF r.err # "" THEN "raised" ELSE "done"
         /\ last' = Token("page", "", FALSE, <<page>>, NoneObj, r)
    /\ UNCHANGED <<strict, instr, saved, legal, text, parser, rsrcmgr>>

\* The sequences of at most n of the bytes.
RECURSIVE BytesUpTo(_, _)
BytesUpTo(bytes, n) ==
    IF n = 0 THEN {<<>>}
    ELSE LET shorter == BytesUpTo(bytes, n - 1) IN
         shorter \cup {Append(b, c) : b \in shorter, c \in bytes}

\* The inline images read: the tokens BI, the dictionary and ID, then the
\* bytes after `ID `. With /W 1 /H 1 and no filter, every sequence of at
\* most MaxData of the bytes E, I, x, space, LF and CR; with each filter
\* (none, /A85, /ASCII85Decode, /Fl, [/A85 /Fl], [/Fl /A85], [] and the
\* number 1), and with the entry /W alone, the bytes `x~> EI `, `x~>\nEI`,
\* `~~> EI ` and `xEI `.
InlineImages ==
    LET size == <<Obj(Lit(2)), Obj(Num(1)), Obj(Lit(3)), Obj(Num(1))>>
        image(entries) == <<Kw("BI")>> \o entries \o <<Kw("ID")>>
        bytes == {"E", "I", "x", " ", "\n", "\r"}
        filters == {Lit(4), Lit(5), Lit(6), List(<<Lit(4), Lit(6)>>),
                    List(<<Lit(6), Lit(4)>>), List(<<>>), Num(1)}
        few == {<<"x", "~", ">", " ", "E", "I", " ">>,
                <<"x", "~", ">", "\n", "E", "I">>,
                <<"~", "~", ">", " ", "E", "I", " ">>,
                <<"x", "E", "I", " ">>}
    IN {[ahead |-> image(size), buf |-> buf] :
          buf \in BytesUpTo(bytes, MaxData)}
       \cup {[ahead |-> image(<<Obj(Lit(1)), Obj(f)>> \o size), buf |-> buf] :
               f \in filters, buf \in few}
       \cup {[ahead |-> image(entries), buf |-> buf] :
               entries \in {size, <<Obj(Lit(2))>>}, buf \in few}

\* render_contents on a stream that holds one inline image.
InitInline ==
    /\ InitInterpreter
    /\ \E image \in InlineImages :
          parser = PDFContentParser(image.ahead, image.buf)
    /\ rsrcmgr = PDFResourceManager(TRUE)

\* One round of the loop of execute with its parser: nextobject, then the
\* operand, the keyword or the end; an exception of the parser other than
\* PSEOF leaves execute.
Execute ==
    /\ parser.on
    /\ LET p == nextobject(parser) IN
         IF p.err # ""
         THEN /\ status = "running"
              /\ status' = "raised"
              /\ calls' = <<>>
              /\ parser' = p
              /\ last' = Token("raised", "", FALSE, <<>>, NoneObj, Self)
              /\ UNCHANGED <<strict, instr, gstack, ctm, textstate,
                             graphicstate, curpath, argstack, scs, ncs,
                             saved, legal, text, rsrcmgr, devctm>>
         ELSE IF p.eof THEN Eof
         ELSE IF p.got.k = "keyword" THEN Keyword(p.got.name)
         ELSE Operand(p.got.obj)

\* A page worker calls get_font (from init_resources) and tests the cache.
GetFont(w, objid) ==
    /\ rsrcmgr.pc[w] = "idle"
    /\ rsrcmgr.ncalls < MaxCalls
    /\ rsrcmgr' = get_font_lookup(rsrcmgr, w, objid)
    /\ UNCHANGED <<strict, status, instr, gstack, ctm, textstate,
                   graphicstate, curpath, argstack, scs, ncs, calls, last,
                   saved, legal, text, parser, devctm>>
\* The worker goes on in get_font: it constructs the font, stores it,
\* returns.
GetFontStep(w) ==
    /\ rsrcmgr.pc[w] # "idle"
    /\ rsrcmgr' = CASE rsrcmgr.pc[w] = "create" -> get_font_create(rsrcmgr, w)
                    [] rsrcmgr.pc[w] = "store" -> get_font_store(rsrcmgr, w)
                    [] rsrcmgr.pc[w] = "return" -> get_font_return(rsrcmgr, w)
    /\ UNCHANGED <<strict, status, instr, gstack, ctm, textstate,
                   graphicstate, curpath, argstack, scs, ncs, calls, last,
                   saved, legal, text, parser, devctm>>

\* One action for each operator of the content streams generated.
Op_q == Keyword("q")
Op_Q == Keyword("Q")
Op_cm == Keyword("cm")
Op_w == Keyword("w")
Op_d == Keyword("d")
Op_m == Keyword("m")
Op_h == Keyword("h")
Op_S == Keyword("S")
Op_f == Keyword("f")
Op_F == Keyword("F")
Op_n == Keyword("n")
Op_Tc == Keyword("Tc")
Op_TL == Keyword("TL")
Op_Tf == Keyword("Tf")
Op_TJ == Keyword("TJ")
Op_Tj == Keyword("Tj")
Op__q == Keyword("'")
Op__w == Keyword("\"")
\* A keyword that names no operator.
Op_unknown == Keyword("xx")

\* ---------------------------------------------------------- specifications
\* Dispatch: operands of two values, handlers of arity 0, 1 and 2, the '
\* operator and an unknown keyword.
Next ==
    \/ \E obj \in {Num(1), Num(2)} : Operand(obj)
    \/ Op_w \/ Op_d \/ Op_n \/ Op__q \/ Op_unknown
    \/ Eof
Spec == Init /\ [][Next]_vars

\* Save and restore around matrix, graphic-state and text-state setters.
NextGS ==
    \/ Operand(Num(1))
    \/ Op_q \/ Op_Q \/ Op_cm \/ Op_w \/ Op_Tc
    \/ Eof
SpecGS == Init /\ [][NextGS]_vars

\* Whole pages: save and restore, path construction and painting.
NextPage ==
    \/ Operand(Num(1))
    \/ Op_q \/ Op_Q \/ Op_m \/ Op_h \/ Op_S \/ Op_f \/ Op_F \/ Op_n
    \/ Op_w
    \/ Eof
SpecPage == Init /\ [][NextPage]_vars

\* Text showing: a font, the leading, and the four show-text operators.
NextShow ==
    \/ \E obj \in {Num(1), Str(1)} : Operand(obj)
    \/ Op_Tf \/ Op_TL \/ Op_TJ \/ Op_Tj \/ Op__q \/ Op__w
    \/ Eof
SpecShow == Init /\ [][NextShow]_vars

\* Painting: a path of Move segments, the line width, and every operator
\* that paints or ends a path but F.
NextPaint ==
    \/ Operand(Num(1))
    \/ \E name \in {"m", "w"} : Keyword(name)
    \/ \E name \in PaintOps \ {"F"} : Keyword(name)
    \/ Eof
SpecPaint == Init /\ [][NextPaint]_vars

\* Rectangles: the operand pushed k-th onto argstack is the number k, so
\* the four operands of re differ; the line width and the stroke.
NextRect ==
    \/ Operand(Num(Len(argstack) + 1))
    \/ \E name \in {"re", "w", "S"} : Keyword(name)
    \/ Eof
SpecRect == Init /\ [][NextRect]_vars

\* Text positioning: the operand pushed k-th onto argstack is the number
\* k; text objects, the text matrix, and the moves to the next line.
NextText ==
    \/ Operand(Num(Len(argstack) + 1))
    \/ \E name \in {"BT", "Tm", "Td", "TD"} : Keyword(name)
    \/ Eof
SpecText == Init /\ [][NextText]_vars

\* Offsets that are not numbers: a number and a string as operands of Td
\* and TD, and the leading.
NextOffset ==
    \/ \E obj \in {Num(1), Str(1)} : Operand(obj)
    \/ \E name \in {"TL", "Td", "TD"} : Keyword(name)
    \/ Eof
SpecOffset == Init /\ [][NextOffset]_vars

\* Colors: the operand pushed k-th onto argstack is the number k; RG, K and
\* k select color spaces of three and four components, SCN, scn, SC and sc
\* take the components.
NextColor ==
    \/ Operand(Num(Len(argstack) + 1))
    \/ \E name \in {"RG", "K", "k"} : Keyword(name)
    \/ \E name \in {"SCN", "scn", "SC", "sc"} : Keyword(name)
    \/ Eof
SpecColor == Init /\ [][NextColor]_vars

\* Color spaces by name: the number 1 and the names /DeviceRGB and
\* /DeviceCMYK as operands, a name only as the first operand waiting; CS
\* and cs select, SCN and scn take the components.
NextSpace ==
    \/ Operand(Num(1))
    \/ \E n \in {3, 4} : argstack = <<>> /\ Operand(Lit(n))
    \/ \E name \in {"CS", "cs", "SCN", "scn"} : Keyword(name)
    \/ Eof
SpecSpace == Init /\ [][NextSpace]_vars

\* XObjects: the number 1 and the names /X1 .. /X4 as operands, a name only
\* as the first operand waiting; cm moves the ctm and Do invokes.
NextForm ==
    \/ Operand(Num(1))
    \/ \E n \in DOMAIN XObjMap : argstack = <<>> /\ Operand(Lit(n))
    \/ \E name \in {"cm", "Do"} : Keyword(name)
    \/ Eof
SpecForm == Init /\ [][NextForm]_vars

\* Colors across q and Q: the operand pushed k-th onto argstack is the
\* number k, with at most four waiting; RG and K set a color and its color
\* space, q and Q save and restore, SCN and scn take the components.
NextRestore ==
    \/ Len(argstack) < 4 /\ Operand(Num(Len(argstack) + 1))
    \/ \E name \in {"q", "Q"} : Keyword(name)
    \/ \E name \in {"RG", "K"} : Keyword(name)
    \/ \E name \in {"SCN", "scn"} : Keyword(name)
    \/ Eof
SpecRestore == Init /\ [][NextRestore]_vars

\* Painting around forms: the number 1 and the name /X1 as operands, the
\* name only as the first operand waiting; Do invokes, m and S make and
\* stroke a path, Q restores.
NextFigure ==
    \/ Operand(Num(1))
    \/ argstack = <<>> /\ Operand(Lit(1))
    \/ \E name \in {"Do", "m", "S", "Q"} : Keyword(name)
    \/ Eof
SpecFigure == Init /\ [][NextFigure]_vars

\* Text objects: the number 1 as operand; BT and ET, and the operators that
\* position text.
NextTextObject ==
    \/ Operand(Num(1))
    \/ \E name \in {"BT", "ET", "Td", "TD", "Tm", "T*"} : Keyword(name)
    \/ Eof
SpecTextObject == Init /\ [][NextTextObject]_vars

\* Fonts: the page workers call get_font on the resource manager they
\* share, each at its own pace.
NextFonts ==
    \/ \E w \in Workers, objid \in ObjIds : GetFont(w, objid)
    \/ \E w \in Workers : GetFontStep(w)
SpecFonts == Init /\ [][NextFonts]_vars

\* Inline images: execute on the stream of the parser.
NextInline == Execute
SpecInline == InitInline /\ [][NextInline]_vars

\* Pages: process_page on one page after another.
NextProcess == \E page \in Pages : ProcessPage(page)
SpecProcess == Init /\ [][NextProcess]_vars

\* Forms under save and restore: the number 1 and the names /X2 and /X5 as
\* operands, at most MaxWaiting of them waiting; q saves, w and cm change
\* the state, Do invokes.
NextFrame ==
    \/ \E obj \in {Num(1), Lit(2), Lit(5)} :
          Len(argstack) < MaxWaiting /\ Operand(obj)
    \/ \E name \in {"q", "w", "Do"} : Keyword(name)
    \/ Eof
SpecFrame == Init /\ [][NextFrame]_vars

\* Text sequences: the names /F1 and /DeviceRGB, a number and an array as
\* operands, at most MaxWaiting of them waiting; a font, a nonstroking
\* color space, TJ and Tj.
NextSeq ==
    \/ \E obj \in {Lit(1), Lit(3), Num(1), TextSeq} :
          Len(argstack) < MaxWaiting /\ Operand(obj)
    \/ \E name \in {"Tf", "cs", "TJ", "Tj"} : Keyword(name)
    \/ Eof
SpecSeq == Init /\ [][NextSeq]_vars

\* ------------------------------------------------------------------ claims
\* A step that read the keyword `name`.
Read(name) == instr' = instr + 1 /\ last'.op = name
SetCtm(m) == [f |-> "set_ctm", a |-> <<m>>]

\* C1: a Q that pops the snapshot of its matching q leaves ctm, textstate
\* and graphicstate as they were at that q, whatever ran in between, and
\* calls device.set_ctm once, with the restored ctm.
C1_QRestoresStateAtQ ==
    [][(Read("Q") /\ saved # <<>>) =>
          /\ ctm' = saved[Len(saved)][1]
          /\ textstate' = saved[Len(saved)][2]
          /\ graphicstate' = saved[Len(saved)][3]
          /\ calls' = <<SetCtm(ctm')>>
          /\ Len(gstack') = Len(gstack) - 1]_vars

\* A Q has just undone a cm, a text-state and a graphic-state change.
C1_Witness ==
    /\ last.kind = "keyword" /\ last.op = "Q" /\ last.depth > 0
    /\ last.moved = {"ctm", "textstate", "graphicstate"}
    /\ calls = <<SetCtm(ctm)>>

\* C2: Q read while gstack is empty changes nothing: gstack stays empty,
\* ctm, textstate and graphicstate keep their values, and the device is
\* not called.
C2_QOnEmptyStackIsNoOp ==
    [][(Read("Q") /\ gstack = <<>>) =>
          /\ gstack' = <<>>
          /\ calls' = <<>>
          /\ status' = "running"
          /\ UNCHANGED <<ctm, textstate, graphicstate, curpath, argstack,
                         scs, ncs>>]_vars

\* A Q was read on an empty gstack after the state had left its defaults.
C2_Witness ==
    /\ last.kind = "keyword" /\ last.op = "Q" /\ last.depth = 0
    /\ graphicstate.linewidth = Num(1)
    /\ ctm # MATRIX_IDENTITY
    /\ calls = <<>>

\* The stream read is a legal content stream, read to its end.
LegalPageDone ==
    /\ status = "done"
    /\ legal.ok /\ legal.pending = 0 /\ legal.depth = 0 /\ ~legal.path

\* C3: after a page whose stream is legal (every q matched by a Q, every
\* path ended by one of S s f F f* B B* b b* n, every operator preceded by
\* exactly its operands), gstack, curpath and argstack are empty.
C3_LegalPageEndsEmpty ==
    LegalPageDone => gstack = <<>> /\ curpath = <<>> /\ argstack = <<>>

\* The top n elements of a stack, and the ones below them.
Top(stack, n) == SubSeq(stack, Len(stack) - n + 1, Len(stack))
Below(stack, n) == SubSeq(stack, 1, Len(stack) - n)

\* C4: an operator whose handler takes N >= 1 operands, read with at least
\* N operands on argstack, has its handler called with exactly the top N,
\* in the order pushed; the operands below stay, in order; argstack holds
\* no keyword.
C4_DispatchPopsArityInOrder ==
    [][(/\ instr' = instr + 1
        /\ last'.op \in Handlers
        /\ FixedArity(last'.op) >= 1
        /\ Len(argstack) >= FixedArity(last'.op)) =>
          LET n == FixedArity(last'.op) IN
          /\ last'.invoked
          /\ Len(last'.passed) >= n
          /\ SubSeq(last'.passed, 1, n) = Top(argstack, n)
          /\ argstack' = Below(argstack, n)
          /\ \A i \in DOMAIN argstack' : argstack'[i].t # "keyword"]_vars

\* C5: in lenient mode an operator whose handler takes N >= 1 operands,
\* read with fewer than N on argstack, is skipped: no handler call, no
\* device call, ctm, gstack, textstate, graphicstate, curpath, scs and ncs
\* unchanged, and execute goes on.
C5_LenientUnderflowSkips ==
    [][(/\ ~strict
        /\ instr' = instr + 1
        /\ last'.op \in Handlers
        /\ FixedArity(last'.op) >= 1
        /\ Len(argstack) < FixedArity(last'.op)) =>
          /\ ~last'.invoked
          /\ calls' = <<>>
          /\ status' = "running"
          /\ UNCHANGED <<ctm, gstack, textstate, graphicstate, curpath,
                         scs, ncs>>]_vars

\* In lenient mode d was read with one operand waiting, after w had set
\* the line width; execute is still running.
C5_Witness ==
    /\ ~strict /\ status = "running"
    /\ last.kind = "keyword" /\ last.op = "d" /\ last.had = 1
    /\ ~last.invoked
    /\ graphicstate.linewidth = Num(2)

\* C6: in strict mode an operator read with fewer operands on argstack
\* than its handler takes raises, which ends the page.
C6_StrictUnderflowRaises ==
    [][(/\ strict
        /\ instr' = instr + 1
        /\ last'.op \in Handlers
        /\ FixedArity(last'.op) >= 1
        /\ Len(argstack) < FixedArity(last'.op)) =>
          status' = "raised"]_vars

\* C7: a keyword without handler is ignored in lenient mode (no device
\* call, no field of the interpreter changes, argstack included, execute
\* goes on) and raises in strict mode.
C7_UnknownOperator ==
    [][(instr' = instr + 1 /\ last'.op \notin Handlers) =>
          IF strict
          THEN status' = "raised"
          ELSE /\ status' = "running"
               /\ calls' = <<>>
               /\ UNCHANGED <<ctm, gstack, textstate, graphicstate,
                              curpath, argstack, scs, ncs>>]_vars

\* In lenient mode an unknown keyword was read with operands waiting and
\* the line width set; execute is still running.
C7_Witness ==
    /\ ~strict /\ status = "running"
    /\ last.kind = "keyword" /\ last.op = "xx" /\ last.had = 2
    /\ argstack = <<Num(1), Num(2)>>
    /\ graphicstate.linewidth = Num(2)

\* The operands the show-text operators take: Tj 1, ' 1, " 3, TJ 1.
ShowOps == {"Tj", "'", "\"", "TJ"}
ShowOperands(name) == IF name = "\"" THEN 3 ELSE 1

\* C8: Tj, ' and TJ take one operand from argstack and " takes three; with
\* exactly that many on argstack the handler is called and argstack is
\* left empty.
C8_ShowTextOperands ==
    [][(instr' = instr + 1 /\ last'.op \in ShowOps) =>
          LET n == ShowOperands(last'.op) IN
          /\ Len(argstack) >= n =>
                last'.invoked /\ argstack' = Below(argstack, n)
          /\ Len(argstack) = n => argstack' = <<>>]_vars

\* C9: the instruction index of every render_string is the index the
\* tokenizer gave the operator token that caused it, and a handler other
\* than those of TJ, Tj, ' and " is called with its operands only.
C9_IndexIsTheTokenizers ==
    last.kind = "keyword" =>
      /\ \A i \in DOMAIN calls :
            calls[i].f = "render_string" => calls[i].a[5] = last.index
      /\ (last.invoked /\ last.op \notin ShowOps) =>
            Len(last.passed) = FixedArity(last.op)

\* C10: " aw ac s does what Tw aw, Tc ac, ' s do: wordspace = aw,
\* charspace = ac, the text matrix moved to the next line as by T*, one
\* render_string for [s]; and ' s does what T* and TJ [s] do.
C10_QuoteOperatorsCompose ==
    [][(instr' = instr + 1 /\ last'.invoked /\ last'.op \in {"'", "\""}) =>
          LET a == last'.passed
              moved == do_T_a(Self)
              composed ==
                IF last'.op = "\""
                THEN do__q(do_Tc(do_Tw(Self, a[1]), a[2]), a[3], Opt(a, 4))
                ELSE do_TJ(moved, List(<<a[1]>>), Opt(a, 2))
          IN /\ textstate' = composed.textstate
             /\ calls' = composed.calls
             /\ textstate'.matrix = moved.textstate.matrix
             /\ last'.op = "\"" =>
                   /\ textstate'.wordspace = a[1]
                   /\ textstate'.charspace = a[2]]_vars

RenderString(ts, seq, cs, gs, index) ==
    [f |-> "render_string", a |-> <<ts, seq, cs, gs, index>>]

\* C11: with a font selected, TJ seq makes exactly one render_string call,
\* with seq as it was pushed, the current textstate, ncs and a copy of
\* graphicstate; Tj s makes the call TJ [s] makes.
C11_ShowTextRendersSeq ==
    [][(/\ instr' = instr + 1
        /\ last'.op \in {"TJ", "Tj"}
        /\ argstack # <<>>
        /\ textstate.font # NoneObj) =>
          LET x == argstack[Len(argstack)]
              seq == IF last'.op = "TJ" THEN x ELSE List(<<x>>)
          IN /\ calls' = <<RenderString(textstate, seq, ncs,
                                        GraphicState_copy(graphicstate),
                                        calls'[1].a[5])>>
             /\ calls' = do_TJ(Self, seq, last'.index).calls
             /\ status' = "running"
             /\ UNCHANGED <<textstate, ncs, graphicstate>>]_vars

\* TJ has just shown the array [(A), -120, (B)] with font /F1 selected and
\* the nonstroking color space set to DeviceRGB by cs.
C11_Witness ==
    /\ last.kind = "keyword" /\ last.op = "TJ" /\ last.invoked
    /\ textstate.font = Font(1)
    /\ ncs = PREDEFINED_COLORSPACE["DeviceRGB"] /\ scs = FirstCS
    /\ Len(calls) = 1 /\ calls[1].f = "render_string"
    /\ calls[1].a[2] = TextSeq

PaintPath(gs, stroke, fill, evenodd, path) ==
    [f |-> "paint_path", a |-> <<gs, stroke, fill, evenodd, path>>]

\* The flags (stroke, fill, evenodd) of each painting operator.
PaintFlags(name) ==
    CASE name \in {"S", "s"} -> <<TRUE, FALSE, FALSE>>
      [] name = "f" -> <<FALSE, TRUE, FALSE>>
      [] name = "f*" -> <<FALSE, TRUE, TRUE>>
      [] name \in {"B", "b"} -> <<TRUE, TRUE, FALSE>>
      [] name \in {"B*", "b*"} -> <<TRUE, TRUE, TRUE>>
ClosingOps == {"s", "b", "b*"}

\* C12: each of S, s, f, f*, B, B*, b, b* calls paint_path exactly once,
\* with the current graphicstate, its flags (S, s: stroke; f: fill; f*:
\* fill, evenodd; B, b: stroke, fill; B*, b*: stroke, fill, evenodd) and
\* curpath, to which s, b and b* first append a Close segment; n makes no
\* device call; after each of them curpath is empty.
C12_PaintOperators ==
    [][(instr' = instr + 1 /\ last'.op \in PaintOps \ {"F"}) =>
          /\ curpath' = <<>>
          /\ status' = "running"
          /\ graphicstate' = graphicstate
          /\ IF last'.op = "n" THEN calls' = <<>>
             ELSE LET fl == PaintFlags(last'.op)
                      path == IF last'.op \in ClosingOps
                              THEN Append(curpath, Seg("h", <<>>))
                              ELSE curpath
                  IN calls' = <<PaintPath(graphicstate, fl[1], fl[2], fl[3],
                                          path)>>]_vars

\* b* has just painted a path of two Move segments, closed, with the line
\* width set by w, and curpath is empty.
C12_Witness ==
    /\ last.kind = "keyword" /\ last.op = "b*"
    /\ graphicstate.linewidth = Num(1)
    /\ calls = <<PaintPath(graphicstate, TRUE, TRUE, TRUE,
                           <<Seg("m", <<Num(1), Num(1)>>),
                             Seg("m", <<Num(1), Num(1)>>),
                             Seg("h", <<>>)>>)>>
    /\ curpath = <<>>

\* C13: F paints like f: one paint_path call with stroke false, fill true,
\* evenodd false and the current path, after which curpath is empty.
C13_FPaintsLikef ==
    [][Read("F") =>
          /\ calls' = <<PaintPath(graphicstate, FALSE, TRUE, FALSE, curpath)>>
          /\ calls' = do_f(Self).calls
          /\ curpath' = <<>>]_vars

\* Move(x,y), Line(x+w,y), Line(x+w,y+h), Line(x,y+h), Close.
Rectangle(x, y, w, h) ==
    << Seg("m", <<Num(x), Num(y)>>),
       Seg("l", <<Num(x + w), Num(y)>>),
       Seg("l", <<Num(x + w), Num(y + h)>>),
       Seg("l", <<Num(x), Num(y + h)>>),
       Seg("h", <<>>) >>

\* C14: re x y w h appends Move(x,y), Line(x+w,y), Line(x+w,y+h),
\* Line(x,y+h), Close to curpath, after the segments already there, and
\* calls no device method; an S that follows calls paint_path with that
\* path, stroke true, fill false, evenodd false and the graphicstate in
\* force.
C14_RectangleThenStroke ==
    [][/\ (Read("re") /\ Len(argstack) >= 4) =>
            LET a == Top(argstack, 4) IN
            /\ curpath' = curpath \o Rectangle(a[1].v, a[2].v, a[3].v, a[4].v)
            /\ calls' = <<>>
            /\ graphicstate' = graphicstate
       /\ (Read("S") /\ last.op = "re" /\ last.invoked) =>
            LET a == last.passed
                n == Len(curpath)
            IN /\ n >= 5
               /\ SubSeq(curpath, n - 4, n) =
                     Rectangle(a[1].v, a[2].v, a[3].v, a[4].v)
               /\ calls' = <<PaintPath(graphicstate, TRUE, FALSE, FALSE,
                                       curpath)>>]_vars

\* S has just stroked, with line width 1, a path of two rectangles, the
\* second of them 1 2 3 4 re: Move(1,2), Line(4,2), Line(4,6), Line(1,6),
\* Close.
C14_Witness ==
    /\ last.kind = "keyword" /\ last.op = "S"
    /\ Len(calls) = 1 /\ calls[1].f = "paint_path"
    /\ calls[1].a[1].linewidth = Num(1)
    /\ Len(calls[1].a[5]) = 10
    /\ SubSeq(calls[1].a[5], 6, 10) =
          << Seg("m", <<Num(1), Num(2)>>), Seg("l", <<Num(4), Num(2)>>),
             Seg("l", <<Num(4), Num(6)>>), Seg("l", <<Num(1), Num(6)>>),
             Seg("h", <<>>) >>

\* A step that read Td or TD with two operands waiting, both numbers or
\* not both.
ReadOffset(numeric) ==
    /\ instr' = instr + 1
    /\ last'.op \in {"Td", "TD"}
    /\ Len(argstack) >= 2
    /\ numeric = (\A i \in 1..2 : IsNum(Top(argstack, 2)[i]))

\* C15: Td tx ty and TD tx ty with numeric operands replace the text matrix
\* (a,b,c,d,e,f) by (a,b,c,d, tx*a+ty*c+e, tx*b+ty*d+f) and set linematrix
\* to (0,0); TD also sets leading to ty; no other field of textstate
\* changes, and Td leaves leading as it is.
C15_TdAndTDTranslate ==
    [][ReadOffset(TRUE) =>
          LET tx == Top(argstack, 2)[1]
              ty == Top(argstack, 2)[2]
              m == textstate.matrix
          IN textstate' =
               [textstate EXCEPT
                  !.matrix = <<m[1], m[2], m[3], m[4],
                               tx.v * m[1] + ty.v * m[3] + m[5],
                               tx.v * m[2] + ty.v * m[4] + m[6]>>,
                  !.linematrix = <<0, 0>>,
                  !.leading = IF last'.op = "TD" THEN ty ELSE @]]_vars

\* 1 2 TD was read with the text matrix (1,2,3,4,5,6) set by Tm: the text
\* matrix is (1,2,3,4,12,16) and the leading 2.
C15_Witness ==
    /\ last.kind = "keyword" /\ last.op = "TD" /\ last.invoked
    /\ last.passed = <<Num(1), Num(2)>>
    /\ textstate.matrix = <<1, 2, 3, 4, 12, 16>>
    /\ textstate.leading = Num(2)

\* C16: after BT, Td tx1 ty1 followed by Td tx2 ty2 leaves the text matrix
\* that one Td (tx1+tx2) (ty1+ty2) leaves when read right after BT.
C16_TdComposes ==
    [][(ReadOffset(TRUE) /\ last'.op = "Td" /\ text.n = 1) =>
          LET a == Top(argstack, 2)
              tx == text.off[1] + a[1].v
              ty == text.off[2] + a[2].v
              m == MATRIX_IDENTITY
          IN textstate'.matrix =
               <<m[1], m[2], m[3], m[4],
                 tx * m[1] + ty * m[3] + m[5],
                 tx * m[2] + ty * m[4] + m[6]>>]_vars

\* BT, 1 2 Td, 2 3 Td were read: the text matrix is (1,0,0,1,3,5).
C16_Witness ==
    /\ last.kind = "keyword" /\ last.op = "Td" /\ last.invoked
    /\ text.n = 2
    /\ text.tm = <<1, 0, 0, 1, 1, 2>> /\ text.off = <<2, 3>>
    /\ textstate.matrix = <<1, 0, 0, 1, 3, 5>>

\* C17: Td or TD with an operand that is not a number changes no field of
\* textstate and raises nothing in lenient mode, and raises a value error
\* in strict mode.
C17_InvalidOffsetIsNoOp ==
    [][ReadOffset(FALSE) =>
          IF strict
          THEN status' = "raised"
          ELSE status' = "running" /\ textstate' = textstate]_vars

\* The operators that take the components of a color, and the color space
\* and the color of the graphic state each of them works on.
ColorOps == {"SCN", "SC", "scn", "sc"}
Stroking(name) == name \in {"SCN", "SC"}
SpaceOf(name) == IF Stroking(name) THEN scs ELSE ncs
ColorOf(name, gs) == IF Stroking(name) THEN gs.scolor ELSE gs.ncolor

\* C18: SC and SCN remove exactly N operands from argstack, N the number of
\* components of scs, and store them as the stroking color; sc and scn do
\* so with ncs and the nonstroking color; with the color space unset N is
\* 1 in lenient mode and the operator raises in strict mode.
C18_ColorTakesComponents ==
    [][(instr' = instr + 1 /\ last'.op \in ColorOps) =>
          LET cs == SpaceOf(last'.op)
              n == IF cs = NoCS THEN 1 ELSE cs.ncomponents
              color == ColorOf(last'.op, graphicstate')
          IN IF cs = NoCS /\ strict
             THEN status' = "raised"
             ELSE /\ status' = "running"
                  /\ Len(argstack') = Len(argstack) - n
                  /\ Len(color.c) = n
                  /\ argstack = argstack' \o color.c]_vars

\* The operands a color of DeviceRGB or DeviceCMYK has.
DeviceNames == {"DeviceRGB", "DeviceCMYK"}
Components(cs) == IF cs.name = "DeviceRGB" THEN 3 ELSE 4
\* A step that read `name` with /DeviceRGB or /DeviceCMYK on top of argstack.
Selects(name) ==
    /\ Read(name)
    /\ argstack # <<>>
    /\ argstack[Len(argstack)] \in {Lit(3), Lit(4)}

\* C19 as stated: after cs /DeviceRGB an SCN pops exactly three operands,
\* and after cs /DeviceCMYK exactly four.
C19_csThenSCN ==
    [][(/\ Read("SCN")
        /\ ncs.name \in DeviceNames
        /\ Len(argstack) >= Components(ncs)) =>
          Len(argstack') = Len(argstack) - Components(ncs)]_vars

\* C19 amended: CS /DeviceRGB and CS /DeviceCMYK select the stroking color
\* space and leave ncs alone, after which an SCN read with that many
\* operands waiting pops exactly three and exactly four; cs selects the
\* nonstroking color space and leaves scs alone, after which scn does so.
C19_CSThenSCN ==
    [][/\ Selects("CS") =>
            /\ scs' = PREDEFINED_COLORSPACE[
                         CSName(argstack[Len(argstack)].v)]
            /\ ncs' = ncs
       /\ Selects("cs") =>
            /\ ncs' = PREDEFINED_COLORSPACE[
                         CSName(argstack[Len(argstack)].v)]
            /\ scs' = scs
       /\ (/\ Read("SCN")
           /\ scs.name \in DeviceNames
           /\ Len(argstack) >= Components(scs)) =>
            /\ Len(argstack') = Len(argstack) - Components(scs)
            /\ Len(graphicstate'.scolor.c) = Components(scs)
       /\ (/\ Read("scn")
           /\ ncs.name \in DeviceNames
           /\ Len(argstack) >= Components(ncs)) =>
            /\ Len(argstack') = Len(argstack) - Components(ncs)
            /\ Len(graphicstate'.ncolor.c) = Components(ncs)]_vars

\* After CS /DeviceCMYK and cs /DeviceRGB, SCN was read with five operands
\* waiting and took four of them.
C19_Witness ==
    /\ last.kind = "keyword" /\ last.op = "SCN" /\ last.had = 5
    /\ scs = PREDEFINED_COLORSPACE["DeviceCMYK"]
    /\ ncs = PREDEFINED_COLORSPACE["DeviceRGB"]
    /\ Len(argstack) = 1
    /\ graphicstate.scolor = List(<<Num(1), Num(1), Num(1), Num(1)>>)

BeginFigure(name, bbox, matrix) ==
    [f |-> "begin_figure", a |-> <<name, bbox, matrix>>]
EndFigure(name) == [f |-> "end_figure", a |-> <<name>>]
\* The xobject a name on top of argstack is bound to is a form with a BBox.
IsForm(stack) ==
    /\ stack # <<>>
    /\ stack[Len(stack)].t = "lit"
    /\ stack[Len(stack)].v \in DOMAIN XObjMap
    /\ XObjMap[stack[Len(stack)].v].Subtype = "Form"
    /\ "BBox" \in DOMAIN XObjMap[stack[Len(stack)].v]
\* The device callbacks the content of a form makes when it is executed in
\* an interpreter whose ctm is ctm0.
ContentCalls(xobj, ctm0) ==
    execute([init_state(ctm0) EXCEPT !.calls = <<>>], xobj.Content, 0).calls

\* C20: Do on a name bound to a form with a BBox and a Matrix M (identity
\* when absent) calls, in this order, begin_figure(name, bbox, M),
\* set_ctm(mult(M, ctm of the parent)) from the initialisation of the child
\* interpreter, the callbacks of the form's content, end_figure(name); the
\* ctm the child starts with is mult(M, ctm of the parent).
C20_FormCallbacksInOrder ==
    [][(Read("Do") /\ IsForm(argstack)) =>
          LET name == argstack[Len(argstack)].v
              xobj == XObjMap[name]
              M == IF "Matrix" \in DOMAIN xobj THEN xobj.Matrix
                   ELSE MATRIX_IDENTITY
              child == mult_matrix(M, ctm)
          IN /\ calls' = <<BeginFigure(name, xobj.BBox, M), SetCtm(child)>>
                         \o ContentCalls(xobj, child)
                         \o <<EndFigure(name)>>
             /\ status' = "running"
             /\ ctm' = ctm]_vars

\* /X1 Do was read with the ctm (1,1,1,1,1,1) set by cm: begin_figure with
\* the form's BBox and Matrix, set_ctm with (2,2,2,2,31,31), the stroke of
\* the form's path, end_figure.
C20_Witness ==
    /\ last.kind = "keyword" /\ last.op = "Do" /\ last.invoked
    /\ ctm = <<1, 1, 1, 1, 1, 1>>
    /\ calls = <<BeginFigure(1, <<0, 0, 100, 100>>, <<2, 0, 0, 2, 10, 20>>),
                 SetCtm(<<2, 2, 2, 2, 31, 31>>),
                 PaintPath(PDFGraphicState, TRUE, FALSE, FALSE,
                           <<Seg("m", <<Num(1), Num(1)>>)>>),
                 EndFigure(1)>>

\* C21: Do on a form with a BBox leaves ctm, gstack, textstate,
\* graphicstate, curpath, scs and ncs of the interpreter that reads it as
\* they were and takes only the name off argstack, whatever the content of
\* the form does: a Q of the form with no q of the form before it pops no
\* snapshot of the parent.
C21_FormLeavesParentState ==
    [][(Read("Do") /\ IsForm(argstack)) =>
          /\ UNCHANGED <<ctm, gstack, textstate, graphicstate, curpath,
                         scs, ncs>>
          /\ argstack' = Below(argstack, 1)
          /\ status' = "running"]_vars

\* /X5 Do was read with one snapshot on gstack, the line width 1 set after
\* the q and the number 1 waiting below the name: the form ran and ended,
\* the snapshot, the line width and the number are still there.
C21_Witness ==
    /\ last.kind = "keyword" /\ last.op = "Do" /\ last.invoked
    /\ last.depth = 1 /\ last.had = 2
    /\ calls # <<>>
    /\ calls[1] = BeginFigure(5, <<0, 0, 10, 10>>, MATRIX_IDENTITY)
    /\ calls[Len(calls)] = EndFigure(5)
    /\ Len(gstack) = 1
    /\ gstack[1][3].linewidth = Num(0)
    /\ graphicstate.linewidth = Num(1)
    /\ argstack = <<Num(1)>>

BeginPage(page, m) == [f |-> "begin_page", a |-> <<page, m>>]
EndPage(page) == [f |-> "end_page", a |-> <<page>>]
\* The ctm of a page with the mediabox and the rotation.
PageCtm(mediabox, rotate) ==
    LET x0 == mediabox[1]
        y0 == mediabox[2]
        x1 == mediabox[3]
        y1 == mediabox[4]
    IN CASE rotate = 0 -> <<1, 0, 0, 1, -x0, -y0>>
         [] rotate = 90 -> <<0, -1, 1, 0, -y0, x1>>
         [] rotate = 180 -> <<-1, 0, 0, -1, x1, y1>>
         [] rotate = 270 -> <<0, 1, -1, 0, y1, -x0>>
\* The device callbacks the tokens make in an interpreter begun with ctm0,
\* the call of set_ctm that begins it left out.
PageCalls(tokens, ctm0) ==
    execute([init_state(ctm0) EXCEPT !.calls = <<>>], tokens, 0).calls

\* C22: process_page on a page of rotation 0, 90, 180 or 270 calls
\* begin_page(page, ctm), then set_ctm(ctm), then the callbacks of the
\* page's content, then end_page(page), ctm being (1,0,0,1,-x0,-y0),
\* (0,-1,1,0,-y0,x1), (-1,0,0,-1,x1,y1) or (0,1,-1,0,y1,-x0) for the
\* mediabox (x0,y0,x1,y1); a content that raises ends the calls before
\* end_page.
C22_PageCallbacksInOrder ==
    [][(last'.kind = "page"
          /\ last'.passed[1].rotate \in {0, 90, 180, 270}) =>
         LET page == last'.passed[1]
             m == PageCtm(page.mediabox, page.rotate)
             before == <<BeginPage(page, m), SetCtm(m)>>
                       \o PageCalls(page.contents, m)
         IN calls' = IF status' = "raised" THEN before
                     ELSE Append(before, EndPage(page))]_vars

\* The page with mediabox (1,2,612,792), rotation 90 and the content
\* `1 1 m S` was processed: begin_page and set_ctm with (0,-1,1,0,-2,612),
\* the stroke, end_page.
C22_Witness ==
    LET page == [mediabox |-> <<1, 2, 612, 792>>, rotate |-> 90,
                 contents |-> <<Obj(Num(1)), Obj(Num(1)), Kw("m"),
                                Kw("S")>>]
        m == <<0, -1, 1, 0, -2, 612>>
    IN /\ last.kind = "page" /\ status = "done"
       /\ calls = <<BeginPage(page, m), SetCtm(m),
                    PaintPath(PDFGraphicState, TRUE, FALSE, FALSE,
                              <<Seg("m", <<Num(1), Num(1)>>)>>),
                    EndPage(page)>>

\* The value of the entry F of the dictionary between BI and ID.
FilterOf(ahead) ==
    IF Len(ahead) >= 3 /\ ahead[2] = Obj(Lit(1)) THEN ahead[3].obj
    ELSE NoneObj
\* F is one of the names of ASCII85, or an array that holds one.
NamesASCII85(f) ==
    \/ f.t = "lit" /\ f \in LITERALS_ASCII85_DECODE
    \/ f.t = "list" /\ \E i \in DOMAIN f.c : f.c[i] \in LITERALS_ASCII85_DECODE
\* F is one of the names of ASCII85, or an array that begins with one.
BeginsWithASCII85(f) ==
    \/ f.t = "lit" /\ f \in LITERALS_ASCII85_DECODE
    \/ f.t = "list" /\ f.c # <<>> /\ f.c[1] \in LITERALS_ASCII85_DECODE
\* F is absent, another name, or an array that begins with another name.
BeginsWithOther(f) ==
    \/ f = NoneObj
    \/ f.t = "lit" /\ f \notin LITERALS_ASCII85_DECODE
    \/ f.t = "list" /\ f.c # <<>> /\ f.c[1].t = "lit"
         /\ f.c[1] \notin LITERALS_ASCII85_DECODE
\* A round of execute in which the parser read an image up to the end of its
\* data and handed over what it pushed first.
ReadImage ==
    /\ parser.on /\ parser.ahead # <<>>
    /\ parser'.ahead = <<>> /\ ~parser'.eof /\ parser'.err = ""
    /\ parser'.got.k = "obj" /\ parser'.got.obj.t = "stream"
\* The parser pushed a Stream whose data is bytes of the content and then
\* ~>, and nothing after it.
PushedWithTerminator ==
    LET data == parser'.got.obj.data IN
    /\ Len(data) >= 2
    /\ SubSeq(data, Len(data) - 1, Len(data)) = <<"~", ">">>
    /\ SubSeq(data, 1, Len(data) - 2)
         = SubSeq(parser'.buf, 1, Len(data) - 2)
    /\ parser'.results = <<>>
\* The parser pushed a Stream whose data is the bytes of the content up to,
\* at most, the byte before an EI that was read, and then the keyword EI.
PushedWithEI ==
    LET data == parser'.got.obj.data
        read == parser'.charpos
    IN /\ SubSeq(parser'.buf, read - 2, read - 1) = <<"E", "I">>
       /\ Len(data) <= read - 3
       /\ data = SubSeq(parser'.buf, 1, Len(data))
       /\ parser'.results = <<Kw("EI")>>

\* C23 as stated: when F names ASCII85, alone or anywhere inside an array,
\* the pushed Stream's data ends with ~> and no EI is pushed; for every
\* other image the data excludes the terminator EI and EI is pushed after
\* the Stream.
C23_ASCII85AnywhereInArray ==
    [][ReadImage =>
          IF NamesASCII85(FilterOf(parser.ahead)) THEN PushedWithTerminator
          ELSE PushedWithEI]_vars

\* C23: when F is /A85 or /ASCII85Decode, or an array whose first element
\* is one of them, the Stream the parser pushes has data that ends with ~>
\* and the parser pushes no EI; when F is absent, another name, or an array
\* whose first element is another name, the data excludes the terminator EI
\* and the parser pushes the Stream and then the keyword EI.
C23_ASCII85FirstFilter ==
    [][ReadImage =>
          /\ BeginsWithASCII85(FilterOf(parser.ahead)) => PushedWithTerminator
          /\ BeginsWithOther(FilterOf(parser.ahead)) => PushedWithEI
          /\ \/ BeginsWithASCII85(FilterOf(parser.ahead))
             \/ BeginsWithOther(FilterOf(parser.ahead))]_vars

\* BI /F [/A85 /Fl] /W 1 /H 1 ID with the bytes `x~>\nEI` was read: the
\* Stream with the data `x~>` is on argstack and nothing else was pushed.
C23_Witness ==
    /\ parser.on
    /\ last.kind = "operand"
    /\ parser.buf = <<"x", "~", ">", "\n", "E", "I">>
    /\ argstack # <<>>
    /\ argstack[1].t = "stream"
    /\ argstack[1].d["F"] = List(<<Lit(4), Lit(6)>>)
    /\ argstack[1].data = <<"x", "~", ">">>
    /\ parser.results = <<>>

\* A round of execute that begins to read an image of /W 1 /H 1 and no
\* filter, whose data EI ends.
ReadsPlainImage ==
    /\ parser.on /\ Len(parser.ahead) = 6
    /\ FilterOf(parser.ahead) = NoneObj
\* EI is at bytes k and k + 1 of buf, white space or nothing before it and
\* white space or the end of the content after it.
ProperEnd(buf, k) ==
    /\ k >= 1 /\ k + 1 <= Len(buf)
    /\ buf[k] = "E" /\ buf[k + 1] = "I"
    /\ k = 1 \/ isspace(buf[k - 1])
    /\ k + 1 = Len(buf) \/ isspace(buf[k + 2])

\* C24: the scan of the data of an inline image ends only at a terminator
\* with white space before it and white space or the end of the content
\* after it, and where the content has such a terminator, be it at its very
\* end, the step leaves the Stream on argstack.
C24_TerminatorBetweenWhitespace ==
    [][ReadsPlainImage =>
          /\ ReadImage => ProperEnd(parser.buf, parser'.charpos - 2)
          /\ (\E k \in 1..Len(parser.buf) : ProperEnd(parser.buf, k)) =>
               /\ ReadImage
               /\ argstack' # <<>>
               /\ argstack'[Len(argstack')].t = "stream"]_vars

\* The places of buf where E and I are followed by a white-space byte.
EndsAt(buf) ==
    {k \in 1..Len(buf) :
       /\ k + 2 <= Len(buf)
       /\ buf[k] = "E" /\ buf[k + 1] = "I" /\ isspace(buf[k + 2])}
\* The bytes less one end of line (CR LF, CR or LF) at their end.
LessOneEndOfLine(bytes) ==
    LET n == Len(bytes) IN
    IF n >= 2 /\ bytes[n - 1] = "\r" /\ bytes[n] = "\n"
    THEN SubSeq(bytes, 1, n - 2)
    ELSE IF n >= 1 /\ bytes[n] \in {"\r", "\n"} THEN SubSeq(bytes, 1, n - 1)
    ELSE bytes

\* C27: get_inline_data stops at the first place of the content where the
\* bytes of the terminator have a white-space byte right after them and
\* returns the bytes before that terminator less one end of line at their
\* end, for every payload, one that ends with the first byte of the
\* terminator included.
C27_StopsAtFirstTerminator ==
    [][(ReadsPlainImage /\ EndsAt(parser.buf) # {}) =>
          LET k == CHOOSE x \in EndsAt(parser.buf) :
                     \A y \in EndsAt(parser.buf) : x <= y
          IN /\ ReadImage
             /\ parser'.charpos = k + 2
             /\ parser'.got.obj.data
                  = LessOneEndOfLine(SubSeq(parser.buf, 1, k - 1))]_vars

\* C25: with caching on, for every objid that is not null at most one Font
\* is constructed, however the get_font calls of the page workers
\* interleave, and every call for the objid returns the same Font object.
C25_FontMadeOncePerObjid ==
    rsrcmgr.caching =>
      \A o \in ObjIds \ {0} :
        /\ rsrcmgr.made[o] <= 1
        /\ \A r1, r2 \in rsrcmgr.returned :
             r1[1] = o /\ r2[1] = o => r1[2] = r2[2]

\* C26: a BT read while a text object is open (a BT before, no ET since),
\* and a Td, TD, Tm or T* read while none is open, leave execute running in
\* lenient mode and raise in strict mode.
C26_TextObjectViolations ==
    [][(\/ Read("BT") /\ text.open
        \/ \E name \in {"Td", "TD", "Tm", "T*"} :
             Read(name) /\ ~text.open) =>
          status' = IF strict THEN "raised" ELSE "running"]_vars

\* C28: whenever the interpreter calls paint_path or render_string, the
\* matrix the device was last given by set_ctm is the interpreter's ctm,
\* also after a Do on a form has returned.
C28_DeviceHoldsCallersCtm ==
    [][(/\ instr' = instr + 1
        /\ last'.op \in PaintOps \cup ShowOps
        /\ \E i \in DOMAIN calls' :
             calls'[i].f \in {"paint_path", "render_string"}) =>
          devctm = ctm]_vars

\* C29: q saves and Q restores ctm, textstate and graphicstate only: a Q
\* that pops puts scolor and ncolor back to their values at the matching q
\* and leaves scs and ncs as the operators before it set them, and q leaves
\* them too; SCN and scn then take the component count of that scs and ncs.
Taken(n) ==
    Len(argstack') =
        Len(argstack) - (IF Len(argstack) <= n THEN Len(argstack) ELSE n)
C29_ColorSpacesOutliveQ ==
    [][/\ Read("q") =>
            /\ gstack' = Append(gstack, <<ctm, textstate, graphicstate>>)
            /\ scs' = scs /\ ncs' = ncs
       /\ (Read("Q") /\ saved # <<>>) =>
            /\ graphicstate'.scolor = saved[Len(saved)][3].scolor
            /\ graphicstate'.ncolor = saved[Len(saved)][3].ncolor
            /\ scs' = scs /\ ncs' = ncs
       /\ (Read("SCN") /\ status' = "running") => Taken(scs.ncomponents)
       /\ (Read("scn") /\ status' = "running") => Taken(ncs.ncomponents)]_vars
\* After `1 2 3 RG q 1 2 3 4 K Q` the stroking color is the one of RG and
\* the stroking color space the one of K.
C29_Witness ==
    /\ last.kind = "keyword" /\ last.op = "Q" /\ last.depth > 0
    /\ status = "running"
    /\ graphicstate.scolor = Tuple(<<Num(1), Num(2), Num(3)>>)
    /\ scs = PREDEFINED_COLORSPACE["DeviceCMYK"]
====
